---- MODULE Spec2Model ----
(***************************************************************************)
(* A model of the ynab-automation scripts:                                 *)
(*   amazon_csv_to_ynab.py       the normalizer ("normalize")              *)
(*   ynab_import.py              the import driver ("import")              *)
(*   ynab_apply_csv_categories.py the apply-categories driver ("apply")    *)
(*   ynab_cleanup_amazon.py      the cleanup driver ("cleanup")            *)
(* Each script is a sequential program; a run is a walk of pc through the  *)
(* script's steps.  The remote ledger and the AI service are environment:  *)
(* every remote call succeeds or fails by a nondeterministic choice.       *)
(*                                                                         *)
(* Text is modelled as a sequence of one-character strings, a date as a    *)
(* day number, an amount as an integer, Python's Optional[T] as a sequence *)
(* of length at most one (<<>> is None).                                   *)
(***************************************************************************)
EXTENDS Integers, Sequences, FiniteSets, TLC

VARIABLES
    prog,            \* which script this run executes
    pc,              \* the script's position
    exit_code,       \* -1 while running, else the process exit code
    run,             \* 1 for the first run of the script, 2 for a re-run, ...
    creds,           \* YNAB_ACCESS_TOKEN, YNAB_BUDGET_ID (and YNAB_ACCOUNT_ID) are set
    ai_key,          \* ANTHROPIC_API_KEY is set
    file_exists,     \* the input CSV file exists
    calls,           \* history: the remote mutation calls issued so far
    failed,          \* history: the remote reads and AI requests that failed
    reported,        \* the run has printed its final counts report
    budget_categories, \* remote: the budget's categories, groups flattened
    ledger,          \* remote: the account's transactions; a transaction's id
                     \* is its position
    ai_values,       \* environment: the values the AI service may answer with
    service,         \* environment: "honest" when the ledger service lists the
                     \* transactions from the since_date on, "stale" when it
                     \* answers every list request with the account's first page
    listed,          \* environment: the parity of the number of list requests
                     \* the service has received
    csv,             \* input CSV: the rows of the file
    categories,      \* the vocabulary fetched from the ledger
    batch_start,     \* the offset of the next classification batch
    no_ai,           \* normalizer: the --no-ai flag
    headers,         \* normalizer: the CSV's header row
    rows_out,        \* normalizer: parsed rows
    deduped,         \* normalizer: rows after deduplication
    out_written,     \* normalizer: the output CSV has been written
    out_csv,         \* normalizer: the rows of the output CSV
    category_id_map, \* import: lower-case category name -> id
    raw_rows,        \* import: the rows read, <<date, amount, row, order_id>>
    groups,          \* import: the groups, in order of first appearance
    existing_by_amount, \* import: the <<amount, date>> of the fetched transactions
    since,           \* the since_date of the next transaction-list request
    transactions_to_import, \* import: the NewTransaction list
    skipped_duplicates,     \* import: the groups skipped as duplicates
    category_name_to_id, \* apply, cleanup: category name -> id
    all_txs,         \* apply, cleanup: the ids of the transactions fetched
    pos,             \* apply, cleanup: the position of the running loop
    csv_lookup,      \* apply: (date, amount) -> category
    csv_by_amount,   \* apply: amount -> [(date, category)]
    uncategorized,   \* apply: the ids of the uncategorized transactions
    updated,         \* apply: the count of updates that succeeded
    no_match,        \* apply: the (date, amount, memo) without a CSV match
    all_ai_cats,     \* apply: index in no_match -> category of the AI pass
    category_names,  \* cleanup: the usable category names
    to_delete,       \* cleanup: the ids of the duplicates
    deleted_ids,     \* cleanup: the ids deleted
    items_to_check,  \* cleanup: the items of the verification
    all_fixes,       \* cleanup: transaction id -> category of the AI
    fixed_count      \* cleanup: the count of fixes that succeeded

common_vars == <<prog, pc, exit_code, run, creds, ai_key, file_exists, calls,
                 failed, reported>>
remote_vars == <<budget_categories, ledger, ai_values, service, listed>>
shared_vars == <<csv, categories, batch_start, since>>
norm_vars   == <<no_ai, headers, rows_out, deduped, out_written, out_csv>>
imp_vars    == <<category_id_map, raw_rows, groups, existing_by_amount,
                 transactions_to_import, skipped_duplicates>>
upd_vars    == <<category_name_to_id, all_txs, pos>>
app_vars    == <<csv_lookup, csv_by_amount, uncategorized, updated, no_match,
                 all_ai_cats>>
cln_vars    == <<category_names, to_delete, deleted_ids, items_to_check,
                 all_fixes, fixed_count>>
vars        == <<common_vars, remote_vars, shared_vars, norm_vars, imp_vars,
                 upd_vars, app_vars, cln_vars>>

\* The variables of the other scripts.
not_norm_vars == <<imp_vars, upd_vars, app_vars, cln_vars>>
not_imp_vars  == <<norm_vars, upd_vars, app_vars, cln_vars>>
not_app_vars  == <<norm_vars, imp_vars, cln_vars>>
not_cln_vars  == <<norm_vars, imp_vars, app_vars>>

----------------------------------------------------------------------------
(* Bounds of the model. *)

\* Longest input CSV, in rows.
MaxRows == 3
\* Most purchases classified by the AI service in one run.
MaxAiRows == 3

\* Longest CSV of the import, in rows.
MaxImportRows == 3

\* Longest CSV of the apply script, in rows.
MaxApplyRows == 2

----------------------------------------------------------------------------
(* Text. *)

\* Stands for one character of Unicode category "So" (an emoji).
EMOJI == "<emoji>"

SymbolOther == {EMOJI}
Whitespace  == {" "}

UpperCase == <<"A", "B", "C", "D", "E", "F", "G", "H", "I", "J", "K", "L", "M",
               "N", "O", "P", "Q", "R", "S", "T", "U", "V", "W", "X", "Y", "Z">>
LowerCase == <<"a", "b", "c", "d", "e", "f", "g", "h", "i", "j", "k", "l", "m",
               "n", "o", "p", "q", "r", "s", "t", "u", "v", "w", "x", "y", "z">>

LowerChar(c) ==
    IF \E i \in 1..Len(UpperCase) : UpperCase[i] = c
    THEN LowerCase[CHOOSE i \in 1..Len(UpperCase) : UpperCase[i] = c]
    ELSE c

\* str.lower()
Lower(s) == [i \in 1..Len(s) |-> LowerChar(s[i])]

\* s[:n]
Take(s, n) == SubSeq(s, 1, IF Len(s) < n THEN Len(s) ELSE n)

\* str.strip()
Strip(s) ==
    LET keep == {i \in 1..Len(s) : s[i] \notin Whitespace}
    IN  IF keep = {} THEN <<>>
        ELSE LET lo == CHOOSE i \in keep : \A j \in keep : i <= j
                 hi == CHOOSE i \in keep : \A j \in keep : j <= i
             IN  SubSeq(s, lo, hi)

\* a in b, for two strings
IsSubstr(a, b) ==
    \E i \in 0..(Len(b) - Len(a)) : SubSeq(b, i + 1, i + Len(a)) = a

\* x in list
InList(x, list) == \E i \in 1..Len(list) : list[i] = x

\* s.replace(ch, "")
Without(s, ch) == SelectSeq(s, LAMBDA c : c /= ch)

Range(f) == {f[i] : i \in DOMAIN f}

S_return        == <<"r", "e", "t", "u", "r", "n">>
S_refund        == <<"r", "e", "f", "u", "n", "d">>
S_reimbursement == <<"r", "e", "i", "m", "b", "u", "r", "s", "e", "m", "e", "n", "t">>
S_Order         == <<"O", "r", "d", "e", "r", " ">>
S_AmazonCa      == <<"A", "m", "a", "z", "o", "n", ".", "c", "a">>

\* amazon_csv_to_ynab.py: PAYEE, DEFAULT_CATEGORY
PAYEE            == S_AmazonCa
DEFAULT_CATEGORY == <<"U", "n", "c", "a", "t", "e", "g", "o", "r", "i", "z", "e", "d">>

\* The date as the scripts print it (strftime("%Y-%m-%d")): one token per day.
DateStr(d) == <<ToString(d)>>

----------------------------------------------------------------------------
(* amazon_csv_to_ynab.py: column detection. *)

DATE_COLUMNS ==
    << <<"o", "r", "d", "e", "r", ".", "d", "a", "t", "e">>,
       <<"o", "r", "d", "e", "r", " ", "d", "a", "t", "e">>,
       <<"o", "r", "d", "e", "r", "_", "d", "a", "t", "e">>,
       <<"d", "a", "t", "e">>,
       <<"o", "r", "d", "e", "r", " ", "p", "l", "a", "c", "e", "d">>,
       <<"c", "h", "a", "r", "g", "e", "d", " ", "o", "n">> >>

AMOUNT_COLUMNS ==
    << <<"o", "r", "d", "e", "r", ".", "t", "o", "t", "a", "l">>,
       <<"o", "r", "d", "e", "r", " ", "t", "o", "t", "a", "l">>,
       <<"o", "r", "d", "e", "r", "_", "t", "o", "t", "a", "l">>,
       <<"i", "t", "e", "m", " ", "t", "o", "t", "a", "l">>,
       <<"i", "t", "e", "m", ".", "t", "o", "t", "a", "l">>,
       <<"t", "o", "t", "a", "l">>,
       <<"a", "m", "o", "u", "n", "t">>,
       <<"p", "r", "i", "c", "e">> >>

MEMO_COLUMNS ==
    << <<"i", "t", "e", "m", ".", "t", "i", "t", "l", "e">>,
       <<"i", "t", "e", "m", " ", "t", "i", "t", "l", "e">>,
       <<"i", "t", "e", "m", "_", "t", "i", "t", "l", "e">>,
       <<"t", "i", "t", "l", "e">>,
       <<"p", "r", "o", "d", "u", "c", "t">>,
       <<"d", "e", "s", "c", "r", "i", "p", "t", "i", "o", "n">>,
       <<"i", "t", "e", "m">>,
       <<"m", "e", "m", "o">>,
       <<"o", "r", "d", "e", "r", ".", "i", "t", "e", "m", "s">> >>

ORDER_ID_COLUMNS ==
    << <<"o", "r", "d", "e", "r", " ", "i", "d">>,
       <<"o", "r", "d", "e", "r", " ", "n", "u", "m", "b", "e", "r">>,
       <<"o", "r", "d", "e", "r", "_", "i", "d">>,
       <<"o", "r", "d", "e", "r", "i", "d">> >>

ORDER_TOTAL_COLUMNS ==
    << <<"o", "r", "d", "e", "r", ".", "t", "o", "t", "a", "l">>,
       <<"o", "r", "d", "e", "r", " ", "t", "o", "t", "a", "l">>,
       <<"o", "r", "d", "e", "r", "_", "t", "o", "t", "a", "l">> >>

\* keys_lower = {k.strip().lower(): k for k in row_dict.keys()}: the keys, in
\* the order of their first insertion.
KeysLower(hs) ==
    LET ks == [i \in 1..Len(hs) |-> Lower(Strip(hs[i]))]
        first(i) == \A j \in 1..(i - 1) : ks[j] /= ks[i]
        F[i \in 0..Len(hs)] ==
            IF i = 0 THEN <<>>
            ELSE IF first(i) THEN Append(F[i - 1], ks[i]) ELSE F[i - 1]
    IN  F[Len(hs)]

\* keys_lower[k]: the last header whose stripped lower-case form is k.
KeyHeader(hs, k) ==
    LET idx == {i \in 1..Len(hs) : Lower(Strip(hs[i])) = k}
    IN  hs[CHOOSE i \in idx : \A j \in idx : j <= i]

NoSpaceDot(s) == Without(Without(s, " "), ".")

\* The resolution with the substring pass tried before the exact pass.
FindColumnSubstrFirst(hs, candidates) ==
    LET keys  == KeysLower(hs)
        exact == {i \in 1..Len(candidates) : InList(Lower(candidates[i]), keys)}
        sub   == {p \in (1..Len(candidates)) \X (1..Len(keys)) :
                     IsSubstr(NoSpaceDot(candidates[p[1]]), NoSpaceDot(keys[p[2]]))}
        before(p, q) == p[1] < q[1] \/ (p[1] = q[1] /\ p[2] <= q[2])
    IN  IF sub /= {}
        THEN LET p == CHOOSE p \in sub : \A q \in sub : before(p, q)
             IN  <<KeyHeader(hs, keys[p[2]])>>
        ELSE IF exact /= {}
        THEN LET i == CHOOSE i \in exact : \A j \in exact : i <= j
             IN  <<KeyHeader(hs, Lower(candidates[i]))>>
        ELSE <<>>

\* _find_column(row_dict, candidates) -> Optional[str]
find_column(hs, candidates) ==
    LET keys  == KeysLower(hs)
        exact == {i \in 1..Len(candidates) : InList(Lower(candidates[i]), keys)}
        sub   == {p \in (1..Len(candidates)) \X (1..Len(keys)) :
                     IsSubstr(NoSpaceDot(candidates[p[1]]), NoSpaceDot(keys[p[2]]))}
        before(p, q) == p[1] < q[1] \/ (p[1] = q[1] /\ p[2] <= q[2])
    IN  IF exact /= {}
        THEN LET i == CHOOSE i \in exact : \A j \in exact : i <= j
             IN  <<KeyHeader(hs, Lower(candidates[i]))>>
        ELSE IF sub /= {}
        THEN LET p == CHOOSE p \in sub : \A q \in sub : before(p, q)
             IN  <<KeyHeader(hs, keys[p[2]])>>
        ELSE <<>>

----------------------------------------------------------------------------
(* amazon_csv_to_ynab.py: main, the per-row parse. *)

\* memo_str[:500]
MEMO_MAX_LEN == 500
\* r["Memo"][:100] in the deduplication key
MEMO_KEY_LEN == 100

REFUND_WORDS == <<S_return, S_refund, S_reimbursement>>

Abs(n) == IF n < 0 THEN 0 - n ELSE n

\* memo_str = (row.get(memo_col, "") or "").strip()[:500]
MemoStr(row, memo_col) ==
    IF memo_col = <<>> THEN <<>> ELSE Take(Strip(row.memo), MEMO_MAX_LEN)

\* The sign rule with a keyword test that tells the letter cases apart.
AmountYnabCaseSensitive(amount_val, memo_str) ==
    IF amount_val > 0
       /\ \E i \in 1..Len(REFUND_WORDS) : IsSubstr(REFUND_WORDS[i], memo_str)
    THEN amount_val
    ELSE IF amount_val /= 0 THEN 0 - Abs(amount_val) ELSE 0

\* The sign rule of lines 256-263.
AmountYnab(amount_val, memo_str) ==
    IF amount_val > 0
       /\ \E i \in 1..Len(REFUND_WORDS) : IsSubstr(REFUND_WORDS[i], Lower(memo_str))
    THEN amount_val
    ELSE IF amount_val /= 0 THEN 0 - Abs(amount_val) ELSE 0

\* The order id of lines 265-271.
OrderIdOf(row, date_str, amount_col, order_id_col, order_total_col) ==
    IF order_id_col /= <<>> /\ Strip(row.order_id) /= <<>>
    THEN Strip(row.order_id)
    ELSE IF order_total_col /= <<>>
    THEN LET order_total_val == IF order_total_col = amount_col
                                THEN row.amount ELSE row.order_total
         IN  IF order_total_val /= <<>>
             THEN date_str \o <<"|", ToString(order_total_val[1])>>
             ELSE <<>>
    ELSE <<>>

\* The loop body with a zero amount skipped as well.
ParseRowDropZero(row, src, cols) ==
    IF row.date = <<>> \/ row.amount = <<>> \/ row.amount = <<0>>
    THEN <<>>
    ELSE LET date_str == DateStr(row.date[1])
             memo_str == MemoStr(row, cols.memo)
         IN  << [Date     |-> row.date[1],
                 Payee    |-> PAYEE,
                 Memo     |-> IF memo_str /= <<>> THEN memo_str
                              ELSE S_Order \o date_str,
                 Amount   |-> AmountYnab(row.amount[1], memo_str),
                 Category |-> <<>>,
                 OrderId  |-> OrderIdOf(row, date_str, cols.amount,
                                        cols.order_id, cols.order_total),
                 src      |-> src,
                 ai_cat   |-> <<>>] >>

\* One iteration of the loop of lines 249-280: the record appended to
\* rows_out, or <<>> when the row is skipped.  src is the row's position in
\* the file and ai_cat the answer its category was resolved from (both kept
\* for the checks; the script does not store them).
ParseRow(row, src, cols) ==
    IF row.date = <<>> \/ row.amount = <<>>
    THEN <<>>
    ELSE LET date_str == DateStr(row.date[1])
             memo_str == MemoStr(row, cols.memo)
         IN  << [Date     |-> row.date[1],
                 Payee    |-> PAYEE,
                 Memo     |-> IF memo_str /= <<>> THEN memo_str
                              ELSE S_Order \o date_str,
                 Amount   |-> AmountYnab(row.amount[1], memo_str),
                 Category |-> <<>>,
                 OrderId  |-> OrderIdOf(row, date_str, cols.amount,
                                        cols.order_id, cols.order_total),
                 src      |-> src,
                 ai_cat   |-> <<>>] >>

\* rows_out after the whole loop over the file.
ParseRows(rows, cols) ==
    LET F[i \in 0..Len(rows)] ==
            IF i = 0 THEN <<>> ELSE F[i - 1] \o ParseRow(rows[i], i, cols)
    IN  F[Len(rows)]

\* The columns resolved from the first row (lines 229-234).
ResolveColumns(hs) ==
    [date        |-> find_column(hs, DATE_COLUMNS),
     amount      |-> find_column(hs, AMOUNT_COLUMNS),
     memo        |-> find_column(hs, MEMO_COLUMNS),
     order_id    |-> find_column(hs, ORDER_ID_COLUMNS),
     order_total |-> find_column(hs, ORDER_TOTAL_COLUMNS)]

\* The key with the whole memo.
DedupKeyWholeMemo(r) == <<r.Date, r.Amount, r.Memo>>

\* Lines 282-289: deduplicate by (date, amount, memo[:100]), keep first.
DedupKey(r) == <<r.Date, r.Amount, Take(r.Memo, MEMO_KEY_LEN)>>

Dedupe(rows) ==
    LET F[i \in 0..Len(rows)] ==
            IF i = 0 THEN <<>>
            ELSE IF \E j \in 1..Len(F[i - 1]) : DedupKey(F[i - 1][j]) = DedupKey(rows[i])
                 THEN F[i - 1]
                 ELSE Append(F[i - 1], rows[i])
    IN  F[Len(rows)]

----------------------------------------------------------------------------
(* amazon_csv_to_ynab.py: the category vocabulary and the resolver. *)

S_KidsSupplies      == <<"K", "i", "d", "s", " ", "S", "u", "p", "p", "l", "i", "e", "s">>
S_KidsSuppliesEmoji == <<"K", "i", "d", "s", " ", "S", "u", "p", "p", "l", "i", "e", "s", " ", EMOJI>>
S_kidssupplies      == <<"k", "i", "d", "s", " ", "s", "u", "p", "p", "l", "i", "e", "s">>
S_Kids              == <<"K", "i", "d", "s">>
S_Wardrobe          == <<"W", "a", "r", "d", "r", "o", "b", "e">>
S_Cat               == <<"C", "a", "t">>
S_WardrobePadded    == <<" ", "W", "a", "r", "d", "r", "o", "b", "e", " ">>
S_TotallyUnknown    == <<"t", "o", "t", "a", "l", "l", "y", " ", "u", "n", "k", "n", "o", "w", "n">>

\* A category of the budget.  group_off: its group is deleted or hidden.
Cat(name, id, deleted, hidden, group_off) ==
    [name |-> name, id |-> id, deleted |-> deleted, hidden |-> hidden,
     group_off |-> group_off]

\* fetch_ynab_categories, lines 94-100 (and the same loops of the apply and
\* cleanup drivers): the categories that are usable, in budget order.
UsableCategories(cats) ==
    SelectSeq(cats, LAMBDA c : ~c.group_off /\ ~c.deleted /\ ~c.hidden)

CategoryNames(cats) == [i \in 1..Len(cats) |-> cats[i].name]

\* fetch_ynab_categories() -> list[str]; ok: the request succeeded.
fetch_ynab_categories(have_creds, ok, cats) ==
    IF ~have_creds \/ ~ok THEN <<DEFAULT_CATEGORY>>
    ELSE LET names == CategoryNames(UsableCategories(cats))
         IN  IF names /= <<>> THEN names ELSE <<DEFAULT_CATEGORY>>

\* normalize(s): drop the "So" characters, strip, lower-case.
normalize(s) == Lower(Strip(SelectSeq(s, LAMBDA c : c \notin SymbolOther)))

\* The resolver handing back a response that matches no category.
ResolveCategoryEcho(ai_response, valid_categories) ==
    LET r       == Strip(ai_response)
        ai_norm == normalize(r)
        hits    == {i \in 1..Len(valid_categories) :
                       \/ normalize(valid_categories[i]) = ai_norm
                       \/ IsSubstr(ai_norm, normalize(valid_categories[i]))
                       \/ IsSubstr(normalize(valid_categories[i]), ai_norm)}
    IN  IF InList(r, valid_categories) THEN r
        ELSE IF hits /= {}
        THEN valid_categories[CHOOSE i \in hits : \A j \in hits : i <= j]
        ELSE r

\* _resolve_category(ai_response, valid_categories), for a string (or None,
\* given as the empty string).
resolve_category(ai_response, valid_categories) ==
    LET r       == Strip(ai_response)
        ai_norm == normalize(r)
        hits    == {i \in 1..Len(valid_categories) :
                       \/ normalize(valid_categories[i]) = ai_norm
                       \/ IsSubstr(ai_norm, normalize(valid_categories[i]))
                       \/ IsSubstr(normalize(valid_categories[i]), ai_norm)}
    IN  IF InList(r, valid_categories) THEN r
        ELSE IF hits /= {}
        THEN valid_categories[CHOOSE i \in hits : \A j \in hits : i <= j]
        ELSE DEFAULT_CATEGORY

\* A value of the JSON object the AI service answers with: a string ("str";
\* JSON null and the other falsy values behave as the empty string), another
\* truthy value such as a number or a list ("other"), or no entry for the
\* index ("absent").
StrValue(s)  == [t |-> "str", s |-> s]
OtherValue   == [t |-> "other", s |-> <<>>]
AbsentValue  == [t |-> "absent", s |-> <<>>]

\* for i in range(0, len(deduped), BATCH_SIZE): 30 in the script, scaled.
BATCH_SIZE == 2

Min(a, b) == IF a < b THEN a ELSE b

\* categorize_with_ai(items, categories) -> dict[int, str], for a batch of n
\* items: the service's answer when the key is set and the request and the
\* parse succeed, else the default for every index (lines 132-134, 201-203).
categorize_with_ai(n, have_key, ok, answer) ==
    IF have_key /\ ok THEN answer
    ELSE [j \in 0..(n - 1) |-> StrValue(DEFAULT_CATEGORY)]

\* ai_cat = categorizations.get(j, DEFAULT_CATEGORY)
AiCat(categorizations, j) ==
    IF categorizations[j].t = "absent" THEN StrValue(DEFAULT_CATEGORY)
    ELSE categorizations[j]

\* Lines 311-313 for one batch deduped[i:i+BATCH_SIZE]: the rows with their
\* categories set, up to the first value that is no string (whose .strip()
\* raises).
CategorizeBatch(rows, i, categorizations, valid) ==
    LET n     == Min(BATCH_SIZE, Len(rows) - i)
        bad   == {j \in 0..(n - 1) : AiCat(categorizations, j).t = "other"}
        stop  == IF bad = {} THEN n ELSE CHOOSE j \in bad : \A k \in bad : j <= k
    IN  [k \in 1..Len(rows) |->
            IF k > i /\ k - i - 1 < stop
            THEN [rows[k] EXCEPT
                      !.Category =
                          resolve_category(AiCat(categorizations, k - i - 1).s, valid),
                      !.ai_cat = <<AiCat(categorizations, k - i - 1).s>>]
            ELSE rows[k]]

BatchRaises(rows, i, categorizations) ==
    \E j \in 0..(Min(BATCH_SIZE, Len(rows) - i) - 1) :
        AiCat(categorizations, j).t = "other"

----------------------------------------------------------------------------
(* The normalizer's inputs. *)

SeqsUpTo(S, n) == UNION {[1..k -> S] : k \in 0..n}

S_RefundIssued  == <<"R", "e", "f", "u", "n", "d", " ", "i", "s", "s", "u", "e", "d">>
S_WirelessMouse == <<"w", "i", "r", "e", "l", "e", "s", "s", " ", "m", "o", "u", "s", "e">>
\* Two memos that differ only past their first MEMO_KEY_LEN characters.
S_LongA == [i \in 1..(MEMO_KEY_LEN + 1) |-> IF i <= MEMO_KEY_LEN THEN "x" ELSE "a"]
S_LongB == [i \in 1..(MEMO_KEY_LEN + 1) |-> IF i <= MEMO_KEY_LEN THEN "x" ELSE "b"]

\* One row of the input file, by the cells of its resolved columns: the
\* result of _parse_date and of _parse_amount on the date, amount and
\* order-total cells (<<>>: unparseable), and the text of the memo and
\* order-id cells.
Row(date, amount, memo, order_id, order_total) ==
    [date |-> date, amount |-> amount, memo |-> memo, order_id |-> order_id,
     order_total |-> order_total]

\* Rows for the sign rule: every sign of the amount, and an unparseable
\* amount, with and without a refund word.
SignRows ==
    {Row(<<1>>, a, m, <<>>, <<>>) :
        a \in {<<0 - 1>>, <<0>>, <<1>>, <<>>},
        m \in {S_RefundIssued, S_WirelessMouse}}

\* Rows for the deduplication key: another date, memos with a common prefix,
\* an empty memo, a row without a date.
KeyRows ==
    {Row(<<2>>, <<0 - 1>>, S_WirelessMouse, <<>>, <<>>),
     Row(<<1>>, <<0 - 1>>, S_LongA, <<"A">>, <<>>),
     Row(<<1>>, <<1>>, S_LongB, <<"B">>, <<5>>),
     Row(<<1>>, <<1>>, <<" ">>, <<>>, <<>>),
     Row(<<>>, <<1>>, S_WirelessMouse, <<>>, <<>>)}

RowDomain == SignRows \cup KeyRows

\* The header row of the normalizer's own output, one of an Amazon export,
\* and header rows in which the date or the amount column is missing.
H_Canonical ==
    << <<"D", "a", "t", "e">>, <<"P", "a", "y", "e", "e">>, <<"M", "e", "m", "o">>,
       <<"A", "m", "o", "u", "n", "t">>, <<"C", "a", "t", "e", "g", "o", "r", "y">>,
       <<"O", "r", "d", "e", "r", "I", "d">> >>
H_Amazon ==
    << <<"O", "r", "d", "e", "r", " ", "D", "a", "t", "e">>,
       <<"I", "t", "e", "m", " ", "T", "o", "t", "a", "l">>,
       <<"I", "t", "e", "m", " ", "T", "i", "t", "l", "e">> >>
H_OrderTotal ==
    << <<"o", "r", "d", "e", "r", ".", "d", "a", "t", "e">>,
       <<"o", "r", "d", "e", "r", ".", "t", "o", "t", "a", "l">> >>
H_NoAmount ==
    << <<"O", "r", "d", "e", "r", " ", "D", "a", "t", "e">>,
       <<"T", "i", "t", "l", "e">> >>
H_NoDate ==
    << <<"f", "o", "o">>, <<"P", "r", "i", "c", "e">> >>

\* A header row in which the date is found by substring only, and the amount
\* both by substring (an earlier candidate) and exactly (a later candidate).
H_Mixed ==
    << <<"P", "u", "r", "c", "h", "a", "s", "e", " ", "D", "a", "t", "e">>,
       <<"G", "r", "a", "n", "d", " ", "T", "o", "t", "a", "l">>,
       <<"A", "m", "o", "u", "n", "t">> >>

HeaderRows == {H_Canonical, H_Amazon, H_OrderTotal, H_NoAmount, H_NoDate, H_Mixed}

\* Budgets.
B_Plain  == << Cat(S_KidsSupplies, "c1", FALSE, FALSE, FALSE),
               Cat(S_Wardrobe, "c2", FALSE, FALSE, FALSE) >>
B_Emoji  == << Cat(S_Wardrobe, "c2", FALSE, FALSE, FALSE),
               Cat(S_KidsSuppliesEmoji, "c1", FALSE, FALSE, FALSE) >>
B_Hidden == << Cat(S_Wardrobe, "c2", FALSE, TRUE, FALSE),
               Cat(S_KidsSupplies, "c1", FALSE, FALSE, FALSE) >>
B_Empty  == << Cat(S_Wardrobe, "c2", TRUE, FALSE, FALSE) >>
\* A budget with a category whose name is part of the word Uncategorized.
B_Cat    == << Cat(S_Wardrobe, "c2", FALSE, FALSE, FALSE),
               Cat(S_Cat, "c6", FALSE, FALSE, FALSE) >>

\* A budget with a short name ahead of the longer name that holds it.
B_Order  == << Cat(S_Kids, "c7", FALSE, FALSE, FALSE),
               Cat(S_KidsSuppliesEmoji, "c1", FALSE, FALSE, FALSE) >>

Budgets == {B_Plain, B_Emoji, B_Hidden, B_Empty, B_Cat, B_Order}

\* What the AI service may answer for one item.
AiValues ==
    {StrValue(S_KidsSupplies), StrValue(S_KidsSuppliesEmoji),
     StrValue(S_kidssupplies), StrValue(S_WardrobePadded),
     StrValue(S_TotallyUnknown), StrValue(<<>>), OtherValue}

\* ResolveColumns, tabulated over the header rows of the model.
ColumnsOf == [hs \in HeaderRows |-> ResolveColumns(hs)]

----------------------------------------------------------------------------
(* amazon_csv_to_ynab.py: main, as a state machine. *)

Exit(code) ==
    /\ pc' = "exit"
    /\ exit_code' = code

\* An uncaught exception: the interpreter ends the process with status 1.
Crash ==
    /\ pc' = "crashed"
    /\ exit_code' = 1

\* Lines 215-218.
NormStart ==
    /\ prog = "normalize" /\ pc = "start"
    /\ IF ~file_exists THEN Exit(1)
       ELSE pc' = "parse" /\ UNCHANGED exit_code
    /\ UNCHANGED <<prog, run, creds, ai_key, file_exists, calls, failed, reported>>
    /\ UNCHANGED <<remote_vars, shared_vars, norm_vars, not_norm_vars>>

\* Lines 226-280: the loop over the file, the columns resolved at the first row.
NormParse ==
    /\ prog = "normalize" /\ pc = "parse"
    /\ LET cols == ColumnsOf[headers]
       IN  IF csv /= <<>> /\ (cols.date = <<>> \/ cols.amount = <<>>)
           THEN Exit(1) /\ UNCHANGED rows_out
           ELSE /\ rows_out' = ParseRows(csv, cols)
                /\ pc' = "dedupe"
                /\ UNCHANGED exit_code
    /\ UNCHANGED <<prog, run, creds, ai_key, file_exists, calls, failed, reported>>
    /\ UNCHANGED <<remote_vars, shared_vars, not_norm_vars>>
    /\ UNCHANGED <<no_ai, headers, deduped, out_written, out_csv>>

\* Lines 282-291.
NormDedupe ==
    /\ prog = "normalize" /\ pc = "dedupe"
    /\ deduped' = Dedupe(rows_out)
    /\ pc' = "categorize"
    /\ UNCHANGED <<prog, exit_code, run, creds, ai_key, file_exists, calls, failed, reported>>
    /\ UNCHANGED <<remote_vars, shared_vars, not_norm_vars>>
    /\ UNCHANGED <<no_ai, headers, rows_out, out_written, out_csv>>

\* Lines 294-297: --no-ai.
NormNoAi ==
    /\ prog = "normalize" /\ pc = "categorize" /\ no_ai
    /\ deduped' = [k \in 1..Len(deduped) |->
                      [deduped[k] EXCEPT !.Category = DEFAULT_CATEGORY]]
    /\ pc' = "write"
    /\ UNCHANGED <<prog, exit_code, run, creds, ai_key, file_exists, calls, failed, reported>>
    /\ UNCHANGED <<remote_vars, shared_vars, not_norm_vars>>
    /\ UNCHANGED <<no_ai, headers, rows_out, out_written, out_csv>>

\* Lines 299-301: the vocabulary; the request succeeds or raises ApiException.
NormFetchCategories ==
    /\ prog = "normalize" /\ pc = "categorize" /\ ~no_ai
    /\ \E ok \in BOOLEAN :
          /\ categories' = fetch_ynab_categories(creds, ok, budget_categories)
          /\ failed' = IF creds /\ ~ok
                        THEN Append(failed, [run |-> run, op |-> "get_categories"])
                        ELSE failed
    /\ batch_start' = 0
    /\ pc' = IF Len(deduped) > 0 THEN "ai" ELSE "write"
    /\ UNCHANGED <<prog, exit_code, run, creds, ai_key, file_exists, calls, reported>>
    /\ UNCHANGED <<remote_vars, csv, since, norm_vars, not_norm_vars>>

\* Lines 306-315: one batch, one classification request.
NormAiBatch ==
    /\ prog = "normalize" /\ pc = "ai"
    /\ LET n == Min(BATCH_SIZE, Len(deduped) - batch_start)
       IN  \E ok \in BOOLEAN,
              answer \in [0..(n - 1) -> ai_values \cup {AbsentValue}] :
              LET categorizations == categorize_with_ai(n, ai_key, ok, answer)
              IN  /\ failed' = IF ai_key /\ ~ok
                                THEN Append(failed, [run |-> run, op |-> "ai",
                                                     batch |-> batch_start])
                                ELSE failed
                  /\ deduped' = CategorizeBatch(deduped, batch_start,
                                                categorizations, categories)
                  /\ IF BatchRaises(deduped, batch_start, categorizations)
                     THEN Crash /\ UNCHANGED batch_start
                     ELSE /\ batch_start' = batch_start + BATCH_SIZE
                          /\ pc' = IF batch_start + BATCH_SIZE < Len(deduped)
                                   THEN "ai" ELSE "write"
                          /\ UNCHANGED exit_code
    /\ UNCHANGED <<prog, run, creds, ai_key, file_exists, calls, reported>>
    /\ UNCHANGED <<remote_vars, csv, categories, since, not_norm_vars>>
    /\ UNCHANGED <<no_ai, headers, rows_out, out_written, out_csv>>

\* Lines 317-333: the output CSV, then the summary.
NormWrite ==
    /\ prog = "normalize" /\ pc = "write"
    /\ out_written' = TRUE
    /\ out_csv' = deduped
    /\ reported' = TRUE
    /\ pc' = "done"
    /\ exit_code' = 0
    /\ UNCHANGED <<prog, run, creds, ai_key, file_exists, calls, failed>>
    /\ UNCHANGED <<remote_vars, shared_vars, not_norm_vars>>
    /\ UNCHANGED <<no_ai, headers, rows_out, deduped>>

NextNormalize ==
    \/ NormStart
    \/ NormParse
    \/ NormDedupe
    \/ NormNoAi
    \/ NormFetchCategories
    \/ NormAiBatch
    \/ NormWrite

----------------------------------------------------------------------------
(* The ledger service, as the scripts call it. *)

S_Uncategorized == <<"U", "n", "c", "a", "t", "e", "g", "o", "r", "i", "z", "e", "d">>
S_Split         == <<"S", "p", "l", "i", "t">>

\* A transaction of the account.  category_id, import_id: <<>> for none.
Tx(date, amount, payee_name, memo, category_id, category_name, import_id, deleted, subtransactions) ==
    [date |-> date, amount |-> amount, payee_name |-> payee_name, memo |-> memo,
     category_id |-> category_id, category_name |-> category_name,
     import_id |-> import_id, deleted |-> deleted,
     subtransactions |-> subtransactions]

\* The category_name the service reports for a saved transaction.
CategoryNameOf(cats, category_id, subtransactions) ==
    IF subtransactions /= <<>> THEN S_Split
    ELSE IF category_id = <<>> THEN S_Uncategorized
    ELSE LET hits == {i \in 1..Len(cats) : cats[i].id = category_id[1]}
         IN  IF hits = {} THEN S_Uncategorized
             ELSE cats[CHOOSE i \in hits : TRUE].name

\* The ids of the transactions dated since_date or later, by date, then id.
IdsSince(txs, since_date) ==
    LET ids == {i \in 1..Len(txs) : txs[i].date >= since_date}
        Before(i, j) == txs[i].date < txs[j].date
                        \/ (txs[i].date = txs[j].date /\ i < j)
    IN  [k \in 1..Cardinality(ids) |->
            CHOOSE i \in ids : Cardinality({j \in ids : Before(j, i)}) = k - 1]

\* The page size of the script's pagination loops: 500 in the scripts, scaled.
PAGE_SIZE == 2

\* get_transactions_by_account(BUDGET_ID, ACCOUNT_ID, since_date=since): the
\* ids of one page of at most PAGE_SIZE transactions.
ListPage(txs, since_date) ==
    LET ids == IdsSince(txs, since_date)
    IN  SubSeq(ids, 1, Min(PAGE_SIZE, Len(ids)))

\* The page the service answers a list request with: that of the since_date
\* or, from a service that repeats itself, the first page of the account.
ServicePage(svc, txs, since_date) ==
    IF svc = "stale" THEN ListPage(txs, 0) ELSE ListPage(txs, since_date)

\* The latest date of a page less one day.
LatestOfLessOne(txs, page) ==
    (CHOOSE d \in {txs[page[k]].date : k \in 1..Len(page)} :
        \A k \in 1..Len(page) : txs[page[k]].date <= d) - 1

\* The latest date of a page (lines 140-151).
LatestOf(txs, page) ==
    CHOOSE d \in {txs[page[k]].date : k \in 1..Len(page)} :
        \A k \in 1..Len(page) : txs[page[k]].date <= d

\* create_transaction(BUDGET_ID, wrapper): the new transactions are saved in
\* order; one whose import_id the account already holds is skipped.
CreateTransactions(txs, cats, new) ==
    LET F[i \in 0..Len(new)] ==
            IF i = 0 THEN txs
            ELSE IF \E j \in 1..Len(F[i - 1]) :
                       F[i - 1][j].import_id = new[i].import_id
                 THEN F[i - 1]
                 ELSE Append(F[i - 1],
                        Tx(new[i].date, new[i].amount, new[i].payee_name,
                           new[i].memo, new[i].category_id,
                           CategoryNameOf(cats, new[i].category_id,
                                          new[i].subtransactions),
                           new[i].import_id, FALSE, new[i].subtransactions))
    IN  F[Len(new)]

----------------------------------------------------------------------------
(* ynab_import.py: the functions. *)

S_OnlineShopping == <<"O", "n", "l", "i", "n", "e", " ", "S", "h", "o", "p", "p", "i", "n", "g">>
S_Groceries      == <<"G", "r", "o", "c", "e", "r", "i", "e", "s">>
S_DiningOut      == <<"D", "i", "n", "i", "n", "g", " ", "O", "u", "t">>
S_Income         == <<"I", "n", "c", "o", "m", "e">>
S_sobeys         == <<"s", "o", "b", "e", "y", "s">>
S_Sobeys         == <<"S", "o", "b", "e", "y", "s">>
S_timhortons     == <<"t", "i", "m", " ", "h", "o", "r", "t", "o", "n", "s">>
S_payroll        == <<"p", "a", "y", "r", "o", "l", "l", " ", "-", " ", "e", "m", "p", "l", "o", "y", "e", "r", " ", "n", "a", "m", "e">>

\* Payee (lower-case) -> category name.
CATEGORY_MAPPING ==
    << <<Lower(S_AmazonCa), S_OnlineShopping>>, <<S_sobeys, S_Groceries>>,
       <<S_timhortons, S_DiningOut>>, <<S_payroll, S_Income>> >>

DEFAULT_CATEGORY_NAME == S_Uncategorized

\* YNAB_DUPLICATE_DAYS, 5 by default; the model runs with 1.
DAYS_TOLERANCE == 1

IMPORT_MEMO_KEY_LEN == 60

\* One row of the import's CSV, by its cells: Date and Amount as
\* strptime and float read them (<<>>: ValueError, or an empty Date).
ImportRow(date, amount, payee, memo, category, order_id) ==
    [Date |-> date, Amount |-> amount, Payee |-> payee, Memo |-> memo,
     Category |-> category, OrderId |-> order_id]

\* int(round(raw * 1000))
Milliunits(raw) == raw * 1000

\* Lines 89-92.
ImportAmount(raw) ==
    LET amount == Milliunits(raw)
    IN  IF amount > 0 THEN 0 - amount ELSE amount

\* Lines 71-98: raw_rows, the tuples (date_obj, amount, row, order_id).
ReadRows(rows) ==
    LET kept == SelectSeq(rows, LAMBDA r : /\ r.Date /= <<>>
                                           /\ r.Amount /= <<>>
                                           /\ ImportAmount(r.Amount[1]) /= 0)
    IN  [k \in 1..Len(kept) |->
            <<kept[k].Date[1], ImportAmount(kept[k].Amount[1]), kept[k],
              Strip(kept[k].OrderId)>>]

\* Lines 107-110: the key of a row's group.
GroupKey(r) ==
    IF r[4] /= <<>> THEN r[4]
    ELSE DateStr(r[1]) \o <<"|">> \o <<ToString(r[2])>> \o <<"|">>
         \o Take(r[3].Memo, IMPORT_MEMO_KEY_LEN)

\* Lines 105-110: groups, a dict in insertion order.
GroupRows(rws) ==
    LET F[i \in 0..Len(rws)] ==
            IF i = 0 THEN <<>>
            ELSE LET g    == F[i - 1]
                     item == <<rws[i][1], rws[i][2], rws[i][3]>>
                     hits == {j \in 1..Len(g) : g[j].key = GroupKey(rws[i])}
                 IN  IF hits = {}
                     THEN Append(g, [key |-> GroupKey(rws[i]), rows |-> <<item>>])
                     ELSE [j \in 1..Len(g) |->
                              IF j \in hits
                              THEN [g[j] EXCEPT !.rows = Append(@, item)]
                              ELSE g[j]]
    IN  F[Len(rws)]

\* Lines 60-64: category_id_map, lower-case name -> id; a later category of
\* the same lower-case name replaces an earlier one.
ImportCategoryMap(cats) ==
    LET usable == SelectSeq(cats, LAMBDA c : ~c.deleted /\ ~c.hidden)
    IN  [n \in {Lower(usable[i].name) : i \in 1..Len(usable)} |->
            usable[CHOOSE i \in 1..Len(usable) :
                      /\ Lower(usable[i].name) = n
                      /\ \A j \in 1..Len(usable) :
                            Lower(usable[j].name) = n => j <= i].id]

\* dict.get(key): <<value>>, or <<>> for None.
Get(map, key) == IF key \in DOMAIN map THEN <<map[key]>> ELSE <<>>

\* CATEGORY_MAPPING.get(payee_lower, DEFAULT_CATEGORY_NAME)
MappedCategory(payee_lower) ==
    LET hits == {i \in 1..Len(CATEGORY_MAPPING) :
                    CATEGORY_MAPPING[i][1] = payee_lower}
    IN  IF hits = {} THEN DEFAULT_CATEGORY_NAME
        ELSE CATEGORY_MAPPING[CHOOSE i \in hits : TRUE][2]

\* category_for_row(row) -> (category id or None, category name)
category_for_row(row, id_map) ==
    LET row_category == Strip(row.Category)
        name         == MappedCategory(Lower(Strip(row.Payee)))
    IN  IF row_category /= <<>>
        THEN <<Get(id_map, Lower(row_category)), row_category>>
        ELSE <<Get(id_map, Lower(name)), name>>

\* is_duplicate(import_date, import_amount); existing: the (amount, date)
\* pairs of existing_by_amount.
is_duplicate(import_date, import_amount, existing) ==
    \E e \in existing :
        /\ e[1] = import_amount
        /\ Abs(import_date - e[2]) <= DAYS_TOLERANCE

SumAmounts(group_rows) ==
    LET F[i \in 0..Len(group_rows)] ==
            IF i = 0 THEN 0 ELSE F[i - 1] + group_rows[i][2]
    IN  F[Len(group_rows)]

\* Lines 191-196: cat_amounts, category id (or None) -> sum, in insertion
\* order.
CatAmounts(group_rows, id_map) ==
    LET F[i \in 0..Len(group_rows)] ==
            IF i = 0 THEN <<>>
            ELSE LET acc    == F[i - 1]
                     cat_id == category_for_row(group_rows[i][3], id_map)[1]
                     amt    == group_rows[i][2]
                     hits   == {j \in 1..Len(acc) : acc[j].category_id = cat_id}
                 IN  IF hits = {}
                     THEN Append(acc, [category_id |-> cat_id, amount |-> amt])
                     ELSE [j \in 1..Len(acc) |->
                              IF j \in hits
                              THEN [acc[j] EXCEPT !.amount = @ + amt]
                              ELSE acc[j]]
    IN  F[Len(group_rows)]

IMPORT_MEMO_MAX_LEN == 500

\* f"YNAB:{total_amount}:{date_obj.isoformat()}:1"
ImportId(total_amount, date_obj) ==
    <<"YNAB", ":", ToString(total_amount), ":">> \o DateStr(date_obj)
    \o <<":", "1">>

\* x or None
OrNone(s) == IF s = <<>> THEN <<>> ELSE <<s>>

\* Lines 187-233: the NewTransaction of one group, single or split.
NewTransaction(group_rows, id_map) ==
    LET date_obj     == group_rows[1][1]
        total_amount == SumAmounts(group_rows)
        stripped     == Strip(group_rows[1][3].Payee)
        payee        == IF stripped /= <<>> THEN stripped ELSE S_AmazonCa
        memo         == Take(Strip(group_rows[1][3].Memo), IMPORT_MEMO_MAX_LEN)
        cat_amounts  == CatAmounts(group_rows, id_map)
        split_memo   == IF memo /= <<>> THEN memo
                        ELSE S_Order \o DateStr(date_obj)
                             \o <<" ", "(", "s", "p", "l", "i", "t", ")">>
    IN  IF Len(cat_amounts) = 1
        THEN [date |-> date_obj, amount |-> total_amount,
              payee_name |-> OrNone(payee), memo |-> OrNone(memo),
              category_id |-> cat_amounts[1].category_id,
              import_id |-> <<ImportId(total_amount, date_obj)>>,
              subtransactions |-> <<>>]
        ELSE [date |-> date_obj, amount |-> total_amount,
              payee_name |-> OrNone(payee),
              memo |-> <<Take(split_memo, IMPORT_MEMO_MAX_LEN)>>,
              category_id |-> <<>>,
              import_id |-> <<ImportId(total_amount, date_obj)>>,
              subtransactions |-> cat_amounts]

\* Lines 176-233: the groups that are built (total not zero, no duplicate),
\* and those skipped as duplicates.
IsBuilt(g, existing) ==
    /\ SumAmounts(g.rows) /= 0
    /\ ~is_duplicate(g.rows[1][1], SumAmounts(g.rows), existing)

BuildTransactions(grps, existing, id_map) ==
    LET built == SelectSeq(grps, LAMBDA g : IsBuilt(g, existing))
    IN  [k \in 1..Len(built) |-> NewTransaction(built[k].rows, id_map)]

SkippedDuplicates(grps, existing) ==
    Len(SelectSeq(grps, LAMBDA g :
            /\ SumAmounts(g.rows) /= 0
            /\ is_duplicate(g.rows[1][1], SumAmounts(g.rows), existing)))

MinDate(rws) ==
    CHOOSE d \in {rws[k][1] : k \in 1..Len(rws)} :
        \A k \in 1..Len(rws) : d <= rws[k][1]

----------------------------------------------------------------------------
(* ynab_import.py: main, as a state machine. *)

\* The start without the credential and file checks.
ImpStartNoCheck ==
    /\ prog = "import" /\ pc = "start"
    /\ pc' = "categories"
    /\ UNCHANGED <<prog, exit_code, run, creds, ai_key, file_exists, calls,
                   failed, reported>>
    /\ UNCHANGED <<remote_vars, shared_vars, imp_vars, not_imp_vars>>

\* Lines 42-49.
ImpStart ==
    /\ prog = "import" /\ pc = "start"
    /\ IF ~creds \/ ~file_exists THEN Exit(1)
       ELSE pc' = "categories" /\ UNCHANGED exit_code
    /\ UNCHANGED <<prog, run, creds, ai_key, file_exists, calls, failed, reported>>
    /\ UNCHANGED <<remote_vars, shared_vars, imp_vars, not_imp_vars>>

\* Lines 57-68: the categories; the request succeeds or raises ApiException.
ImpFetchCategories ==
    /\ prog = "import" /\ pc = "categories"
    /\ \E ok \in BOOLEAN :
          IF ok
          THEN /\ category_id_map' = ImportCategoryMap(budget_categories)
               /\ pc' = "read"
               /\ UNCHANGED <<exit_code, failed>>
          ELSE /\ failed' = Append(failed, [run |-> run, op |-> "get_categories"])
               /\ Exit(1)
               /\ UNCHANGED category_id_map
    /\ UNCHANGED <<prog, run, creds, ai_key, file_exists, calls, reported>>
    /\ UNCHANGED <<remote_vars, shared_vars, not_imp_vars>>
    /\ UNCHANGED <<raw_rows, groups, existing_by_amount, transactions_to_import,
                   skipped_duplicates>>

\* Lines 71-116: the rows, the groups, the first since_date.
ImpReadCsv ==
    /\ prog = "import" /\ pc = "read"
    /\ raw_rows' = ReadRows(csv)
    /\ groups' = GroupRows(raw_rows')
    /\ existing_by_amount' = {}
    /\ IF raw_rows' /= <<>>
       THEN since' = MinDate(raw_rows') - DAYS_TOLERANCE /\ pc' = "fetch"
       ELSE UNCHANGED since /\ pc' = "build"
    /\ UNCHANGED <<prog, exit_code, run, creds, ai_key, file_exists, calls,
                   failed, reported>>
    /\ UNCHANGED <<remote_vars, csv, categories, batch_start, not_imp_vars>>
    /\ UNCHANGED <<category_id_map, transactions_to_import, skipped_duplicates>>

\* Lines 118-157: one request of the pagination loop.  An ApiException ends
\* the loop with a warning; the run goes on with what was loaded so far.
ImpFetchPage ==
    /\ prog = "import" /\ pc = "fetch"
    /\ listed' = 1 - listed
    /\ \E ok \in BOOLEAN :
          IF ok
          THEN LET txs == ServicePage(service, ledger, since)
               IN  /\ existing_by_amount' = existing_by_amount \cup
                         {<<ledger[txs[k]].amount, ledger[txs[k]].date>> :
                             k \in {j \in 1..Len(txs) : ~ledger[txs[j]].deleted}}
                   /\ IF Len(txs) < PAGE_SIZE
                      THEN pc' = "build" /\ UNCHANGED since
                      ELSE pc' = "fetch" /\ since' = LatestOf(ledger, txs) + 1
                   /\ UNCHANGED failed
          ELSE /\ failed' = Append(failed, [run |-> run, op |-> "get_transactions"])
               /\ pc' = "build"
               /\ UNCHANGED <<existing_by_amount, since>>
    /\ UNCHANGED <<prog, exit_code, run, creds, ai_key, file_exists, calls, reported>>
    /\ UNCHANGED <<budget_categories, ledger, ai_values, service, csv, categories,
                   batch_start, not_imp_vars>>
    /\ UNCHANGED <<category_id_map, raw_rows, groups, transactions_to_import,
                   skipped_duplicates>>

\* Lines 176-240: the list to import; an empty list ends the run with the
\* count of the duplicates skipped and "No transactions to import.".
ImpBuild ==
    /\ prog = "import" /\ pc = "build"
    /\ transactions_to_import' =
          BuildTransactions(groups, existing_by_amount, category_id_map)
    /\ skipped_duplicates' = SkippedDuplicates(groups, existing_by_amount)
    /\ IF transactions_to_import' = <<>>
       THEN pc' = "done" /\ exit_code' = 0 /\ reported' = TRUE
       ELSE pc' = "create" /\ UNCHANGED <<exit_code, reported>>
    /\ UNCHANGED <<prog, run, creds, ai_key, file_exists, calls, failed>>
    /\ UNCHANGED <<remote_vars, shared_vars, not_imp_vars>>
    /\ UNCHANGED <<category_id_map, raw_rows, groups, existing_by_amount>>

\* Lines 242-252: the one create request for the whole list.
ImpCreate ==
    /\ prog = "import" /\ pc = "create"
    /\ \E ok \in BOOLEAN :
          /\ calls' = Append(calls, [op |-> "create", phase |-> "create", run |-> run,
                                     ok |-> ok, txs |-> transactions_to_import])
          /\ IF ok
             THEN /\ ledger' = CreateTransactions(ledger, budget_categories,
                                                  transactions_to_import)
                  /\ reported' = TRUE
                  /\ pc' = "done"
                  /\ exit_code' = 0
             ELSE /\ Exit(1)
                  /\ UNCHANGED <<ledger, reported>>
    /\ UNCHANGED <<prog, run, creds, ai_key, file_exists, failed>>
    /\ UNCHANGED <<budget_categories, ai_values, service, listed, shared_vars,
                   not_imp_vars, imp_vars>>

\* Most runs of one script over the same ledger.
MaxRuns == 2

\* Lines 255-256: the script is run again, with the same file and settings.
ImpRerun ==
    /\ prog = "import" /\ pc \in {"done", "exit"} /\ run < MaxRuns
    /\ run' = run + 1
    /\ pc' = "start"
    /\ exit_code' = 0 - 1
    /\ reported' = FALSE
    /\ category_id_map' = <<>>
    /\ raw_rows' = <<>>
    /\ groups' = <<>>
    /\ existing_by_amount' = {}
    /\ since' = 0
    /\ transactions_to_import' = <<>>
    /\ skipped_duplicates' = 0
    /\ UNCHANGED <<prog, creds, ai_key, file_exists, calls, failed>>
    /\ UNCHANGED <<remote_vars, csv, categories, batch_start, not_imp_vars>>

NextImport ==
    \/ ImpStart
    \/ ImpFetchCategories
    \/ ImpReadCsv
    \/ ImpFetchPage
    \/ ImpBuild
    \/ ImpCreate
    \/ ImpRerun

----------------------------------------------------------------------------
(* The import's inputs. *)

S_Mouse == <<"m", "o", "u", "s", "e">>

\* A purchase, a refund of the same size on the same day, two rows of one
\* order in two categories and a refund of that order, and rows the reader
\* drops.
ImportRowDomain ==
    {ImportRow(<<2>>, <<0 - 1>>, S_AmazonCa, S_Mouse, <<>>, <<>>),
     ImportRow(<<2>>, <<1>>, S_AmazonCa, S_RefundIssued, <<>>, <<>>),
     ImportRow(<<4>>, <<0 - 2>>, S_Sobeys, <<>>, S_Groceries, <<"A">>),
     ImportRow(<<4>>, <<0 - 3>>, <<>>, <<>>, S_WardrobePadded, <<"A">>),
     ImportRow(<<4>>, <<1>>, S_AmazonCa, S_RefundIssued, S_Groceries, <<"A">>),
     ImportRow(<<>>, <<0 - 1>>, S_AmazonCa, S_Mouse, <<>>, <<>>),
     ImportRow(<<2>>, <<0>>, S_AmazonCa, S_Mouse, <<>>, <<>>),
     ImportRow(<<2>>, <<>>, S_AmazonCa, S_Mouse, <<>>, <<>>)}

B_Import == << Cat(S_OnlineShopping, "c3", FALSE, FALSE, FALSE),
               Cat(S_Groceries, "c4", FALSE, FALSE, FALSE),
               Cat(S_Wardrobe, "c2", FALSE, FALSE, TRUE),
               Cat(S_Income, "c5", FALSE, TRUE, FALSE) >>

\* A transaction entered by hand.
Manual(date, amount, memo) ==
    Tx(date, amount, S_AmazonCa, memo, <<>>, S_Uncategorized, <<>>, FALSE, <<>>)

L_Empty == <<>>
\* One transaction within DAYS_TOLERANCE of both CSV dates.
L_Near  == << Manual(3, 0 - 1000, S_Mouse) >>
\* More than a page of transactions, a full page of them on one day.
L_Pages == << Manual(2, 0 - 9000, S_Mouse), Manual(2, 0 - 8000, S_Mouse),
              Manual(5, 0 - 5000, S_Mouse) >>

ImportLedgers == {L_Empty, L_Near, L_Pages}

----------------------------------------------------------------------------
(* The ledger service: updates and deletions. *)

\* update_transaction(BUDGET_ID, tx.id, wrapper): the wrapper repeats the
\* transaction's own fields and sets category_id.
UpdateTransaction(txs, cats, id, category_id) ==
    [txs EXCEPT ![id] =
        [txs[id] EXCEPT !.category_id = <<category_id>>,
                        !.category_name =
                            CategoryNameOf(cats, <<category_id>>,
                                           txs[id].subtransactions)]]

\* delete_transaction(BUDGET_ID, tx.id)
DeleteTransaction(txs, id) == [txs EXCEPT ![id] = [@ EXCEPT !.deleted = TRUE]]

----------------------------------------------------------------------------
(* ynab_apply_csv_categories.py: the functions. *)

\* Lines 54-56: milliunits, a positive amount made negative.
LookupAmount(raw) ==
    LET milliunits == Milliunits(raw)
    IN  IF milliunits > 0 THEN 0 - milliunits ELSE milliunits

\* The rows load_csv_lookup keeps (lines 40-59).  A row without an Amount
\* cell counts as 0.
LookupRows(rows) ==
    SelectSeq(rows, LAMBDA r : /\ r.Date /= <<>>
                               /\ r.Amount /= <<>>
                               /\ Strip(r.Category) /= <<>>
                               /\ Lower(Strip(r.Category)) /= Lower(S_Uncategorized))

\* lookup: (date, milliunits) -> category, the last row of a key wins.
CsvLookup(rows) ==
    LET kept   == LookupRows(rows)
        Key(k) == <<kept[k].Date[1], LookupAmount(kept[k].Amount[1])>>
    IN  [key \in {Key(k) : k \in 1..Len(kept)} |->
            Strip(kept[CHOOSE k \in 1..Len(kept) :
                          /\ Key(k) = key
                          /\ \A j \in 1..Len(kept) : Key(j) = key => j <= k].Category)]

\* by_amount: milliunits -> [(date, category)], in file order.
CsvByAmount(rows) ==
    LET kept == LookupRows(rows)
    IN  [m \in {LookupAmount(kept[k].Amount[1]) : k \in 1..Len(kept)} |->
            LET of_m == SelectSeq(kept, LAMBDA r : LookupAmount(r.Amount[1]) = m)
            IN  [k \in 1..Len(of_m) |-> <<of_m[k].Date[1], Strip(of_m[k].Category)>>]]

\* Offsets of one day only.
MATCH_OFFSETS_NARROW == <<0 - 1, 1>>

\* for delta in [-2, -1, 1, 2]
MATCH_OFFSETS == <<0 - 2, 0 - 1, 1, 2>>

\* The matching with a fallback that takes the first row of any amount.
MatchCategoryFirstRow(d, amt, lookup, by_amount) ==
    LET near == {i \in 1..Len(MATCH_OFFSETS) :
                    <<d + MATCH_OFFSETS[i], amt>> \in DOMAIN lookup}
    IN  IF <<d, amt>> \in DOMAIN lookup THEN <<lookup[<<d, amt>>]>>
        ELSE IF near /= {}
        THEN <<lookup[<<d + MATCH_OFFSETS[CHOOSE i \in near :
                                             \A j \in near : i <= j], amt>>]>>
        ELSE IF amt \in DOMAIN by_amount
        THEN <<by_amount[amt][1][2]>>
        ELSE <<>>

\* The matching with the neighbouring dates tried before the date itself.
MatchCategoryOffsetsFirst(d, amt, lookup, by_amount) ==
    LET near == {i \in 1..Len(MATCH_OFFSETS) :
                    <<d + MATCH_OFFSETS[i], amt>> \in DOMAIN lookup}
    IN  IF near /= {}
        THEN <<lookup[<<d + MATCH_OFFSETS[CHOOSE i \in near :
                                             \A j \in near : i <= j], amt>>]>>
        ELSE IF <<d, amt>> \in DOMAIN lookup THEN <<lookup[<<d, amt>>]>>
        ELSE IF amt \in DOMAIN by_amount /\ Len(by_amount[amt]) = 1
        THEN <<by_amount[amt][1][2]>>
        ELSE <<>>

\* The matching with a fallback that accepts an amount of up to two entries.
MatchCategoryUpToTwo(d, amt, lookup, by_amount) ==
    LET near == {i \in 1..Len(MATCH_OFFSETS) :
                    <<d + MATCH_OFFSETS[i], amt>> \in DOMAIN lookup}
    IN  IF <<d, amt>> \in DOMAIN lookup THEN <<lookup[<<d, amt>>]>>
        ELSE IF near /= {}
        THEN <<lookup[<<d + MATCH_OFFSETS[CHOOSE i \in near :
                                             \A j \in near : i <= j], amt>>]>>
        ELSE IF amt \in DOMAIN by_amount /\ Len(by_amount[amt]) <= 2
        THEN <<by_amount[amt][1][2]>>
        ELSE <<>>

\* Lines 206-223: the category the CSV gives a transaction, <<>> for none.
MatchCategory(d, amt, lookup, by_amount) ==
    LET near == {i \in 1..Len(MATCH_OFFSETS) :
                    <<d + MATCH_OFFSETS[i], amt>> \in DOMAIN lookup}
    IN  IF <<d, amt>> \in DOMAIN lookup THEN <<lookup[<<d, amt>>]>>
        ELSE IF near /= {}
        THEN <<lookup[<<d + MATCH_OFFSETS[CHOOSE i \in near :
                                             \A j \in near : i <= j], amt>>]>>
        ELSE IF amt \in DOMAIN by_amount /\ Len(by_amount[amt]) = 1
        THEN <<by_amount[amt][1][2]>>
        ELSE <<>>

\* Lines 141-148 (and 126-136 of the cleanup): name -> id over the usable
\* categories, a later category of the same name replacing an earlier one.
CategoryNameToId(cats) ==
    LET usable == UsableCategories(cats)
    IN  [n \in {usable[i].name : i \in 1..Len(usable)} |->
            usable[CHOOSE i \in 1..Len(usable) :
                      /\ usable[i].name = n
                      /\ \A j \in 1..Len(usable) : usable[j].name = n => j <= i].id]

\* The keys of that dict, in insertion order.
KeysInOrder(cats) ==
    LET names == CategoryNames(UsableCategories(cats))
        first == SelectSeq([i \in 1..Len(names) |-> i],
                           LAMBDA i : \A j \in 1..(i - 1) : names[j] /= names[i])
    IN  [k \in 1..Len(first) |-> names[first[k]]]

\* A selection that takes every transaction.
IsUncategorizedAny(tx) == tx.category_name = tx.category_name

\* Line 189: the transactions whose category_name is empty or Uncategorized.
IsUncategorized(tx) == Strip(tx.category_name) \in {<<>>, S_Uncategorized}

APPLY_MEMO_LEN     == 80
DETAILED_MEMO_LEN  == 30

\* _resolve_category of this script: the same steps as the normalizer's.
apply_resolve_category(ai_response, valid) ==
    LET r    == Strip(ai_response)
        ai_n == normalize(r)
        hits == {i \in 1..Len(valid) :
                    \/ normalize(valid[i]) = ai_n
                    \/ IsSubstr(ai_n, normalize(valid[i]))
                    \/ IsSubstr(normalize(valid[i]), ai_n)}
    IN  IF InList(r, valid) THEN r
        ELSE IF hits /= {}
        THEN valid[CHOOSE i \in hits : \A j \in hits : i <= j]
        ELSE S_Uncategorized

\* str(v) of a JSON value that is no string, such as the number 5.
S_Five == <<"5">>

\* categorize_with_ai(memos, categories) -> dict[int, str]: the answer's
\* entries, resolved; {} without a key or when the request or the parse fails.
\* answer: index -> value over the answer's keys.
apply_categorize_with_ai(have_key, ok, answer, valid) ==
    IF ~have_key \/ ~ok THEN <<>>
    ELSE [k \in {j \in DOMAIN answer : answer[j].t /= "absent"} |->
             apply_resolve_category(
                 IF answer[k].t = "str" THEN Strip(answer[k].s) ELSE S_Five, valid)]

----------------------------------------------------------------------------
(* ynab_apply_csv_categories.py: main, as a state machine. *)

\* since = date(2025, 12, 1): day 1 of the model's calendar.
APPLY_SINCE == 1

\* range(0, len(memos), 25): 25 in the script, scaled.
APPLY_BATCH_SIZE == 2

\* Lines 121-131: the fatal checks, then the CSV lookup tables.
AppStart ==
    /\ prog = "apply" /\ pc = "start"
    /\ IF ~creds \/ ~file_exists
       THEN Exit(1) /\ UNCHANGED <<csv_lookup, csv_by_amount>>
       ELSE /\ csv_lookup' = CsvLookup(csv)
            /\ csv_by_amount' = CsvByAmount(csv)
            /\ pc' = "categories"
            /\ UNCHANGED exit_code
    /\ UNCHANGED <<prog, run, creds, ai_key, file_exists, calls, failed, reported>>
    /\ UNCHANGED <<remote_vars, shared_vars, upd_vars, not_app_vars>>
    /\ UNCHANGED <<uncategorized, updated, no_match, all_ai_cats>>

\* Lines 139-155: the categories; the request succeeds or raises ApiException.
AppFetchCategories ==
    /\ prog = "apply" /\ pc = "categories"
    /\ \E ok \in BOOLEAN :
          IF ok
          THEN /\ category_name_to_id' = CategoryNameToId(budget_categories)
               /\ all_txs' = <<>>
               /\ since' = APPLY_SINCE
               /\ pc' = "fetch"
               /\ UNCHANGED <<exit_code, failed>>
          ELSE /\ failed' = Append(failed, [run |-> run, op |-> "get_categories"])
               /\ Exit(1)
               /\ UNCHANGED <<category_name_to_id, all_txs, since>>
    /\ UNCHANGED <<prog, run, creds, ai_key, file_exists, calls, reported>>
    /\ UNCHANGED <<remote_vars, csv, categories, batch_start, pos, app_vars,
                   not_app_vars>>

\* Lines 156-185: one request of the pagination loop.
AppFetchPage ==
    /\ prog = "apply" /\ pc = "fetch"
    /\ listed' = 1 - listed
    /\ \E ok \in BOOLEAN :
          IF ok
          THEN LET txs == ServicePage(service, ledger, since)
               IN  /\ all_txs' = all_txs \o SelectSeq(txs, LAMBDA id : ~ledger[id].deleted)
                   /\ IF Len(txs) < PAGE_SIZE
                      THEN pc' = "select" /\ UNCHANGED since
                      ELSE pc' = "fetch" /\ since' = LatestOf(ledger, txs) + 1
                   /\ UNCHANGED <<exit_code, failed>>
          ELSE /\ failed' = Append(failed, [run |-> run, op |-> "get_transactions"])
               /\ Exit(1)
               /\ UNCHANGED <<all_txs, since>>
    /\ UNCHANGED <<prog, run, creds, ai_key, file_exists, calls, reported>>
    /\ UNCHANGED <<budget_categories, ledger, ai_values, service, csv,
                   categories, batch_start, category_name_to_id,
                   pos, app_vars, not_app_vars>>

\* Lines 187-193.
AppSelect ==
    /\ prog = "apply" /\ pc = "select"
    /\ uncategorized' = SelectSeq(all_txs, LAMBDA id : IsUncategorized(ledger[id]))
    /\ updated' = 0
    /\ no_match' = <<>>
    /\ pos' = 1
    /\ pc' = "match"
    /\ UNCHANGED <<prog, exit_code, run, creds, ai_key, file_exists, calls,
                   failed, reported>>
    /\ UNCHANGED <<remote_vars, shared_vars, category_name_to_id, all_txs,
                   not_app_vars>>
    /\ UNCHANGED <<csv_lookup, csv_by_amount, all_ai_cats>>

\* Lines 194-249: one transaction of the match pass.  A failed update is
\* printed and the loop goes on.
AppMatch ==
    /\ prog = "apply" /\ pc = "match" /\ pos <= Len(uncategorized)
    /\ LET id      == uncategorized[pos]
           tx      == ledger[id]
           new_cat == MatchCategory(tx.date, tx.amount, csv_lookup, csv_by_amount)
       IN  IF new_cat = <<>>
           THEN /\ no_match' = Append(no_match,
                                  <<tx.date, tx.amount, Take(tx.memo, APPLY_MEMO_LEN)>>)
                /\ UNCHANGED <<ledger, calls, updated>>
           ELSE IF new_cat[1] \notin DOMAIN category_name_to_id
           THEN UNCHANGED <<ledger, calls, updated, no_match>>
           ELSE \E ok \in BOOLEAN :
                   /\ calls' = Append(calls,
                          [op |-> "update", phase |-> "match", run |-> run,
                           ok |-> ok, id |-> id,
                           category_id |-> category_name_to_id[new_cat[1]]])
                   /\ IF ok
                      THEN /\ ledger' = UpdateTransaction(ledger, budget_categories,
                                            id, category_name_to_id[new_cat[1]])
                           /\ updated' = updated + 1
                      ELSE UNCHANGED <<ledger, updated>>
                   /\ UNCHANGED no_match
    /\ pos' = pos + 1
    /\ UNCHANGED <<prog, pc, exit_code, run, creds, ai_key, file_exists, failed,
                   reported>>
    /\ UNCHANGED <<budget_categories, ai_values, service, listed, shared_vars,
                   category_name_to_id,
                   all_txs, not_app_vars>>
    /\ UNCHANGED <<csv_lookup, csv_by_amount, uncategorized, all_ai_cats>>

\* Lines 252-260: the AI pass runs over the unmatched transactions with
\* detailed memos, when there are any and the API key is set.
AppAiStart ==
    /\ prog = "apply" /\ pc = "match" /\ pos > Len(uncategorized)
    /\ LET detailed_memos ==
               SelectSeq(no_match, LAMBDA e : Len(Strip(e[3])) > DETAILED_MEMO_LEN)
       IN  IF detailed_memos /= <<>> /\ ai_key
           THEN /\ no_match' = detailed_memos
                /\ all_ai_cats' = <<>>
                /\ batch_start' = 0
                /\ pc' = "ai"
           ELSE /\ pc' = "report"
                /\ UNCHANGED <<no_match, all_ai_cats, batch_start>>
    /\ UNCHANGED <<prog, exit_code, run, creds, ai_key, file_exists, calls,
                   failed, reported>>
    /\ UNCHANGED <<remote_vars, csv, categories, since, upd_vars, not_app_vars>>
    /\ UNCHANGED <<csv_lookup, csv_by_amount, uncategorized, updated>>

\* all_ai_cats[b + k] = v for the entries of one batch.
MergeBatch(all_cats, b, batch_cats) ==
    [i \in DOMAIN all_cats \cup {b + k : k \in DOMAIN batch_cats} |->
        IF i - b \in DOMAIN batch_cats THEN batch_cats[i - b] ELSE all_cats[i]]

\* cat_names = [c for c in category_name_to_id.keys() if c != "Uncategorized"]
CatNames(cats) == SelectSeq(KeysInOrder(cats), LAMBDA c : c /= S_Uncategorized)

\* The AI pass leaving for the updates after its first batch.
AppAiBatchOneOnly ==
    /\ prog = "apply" /\ pc = "ai"
    /\ LET n == Min(APPLY_BATCH_SIZE, Len(no_match) - batch_start)
       IN  \E ok \in BOOLEAN, answer \in [0..n -> ai_values \cup {AbsentValue}] :
              /\ all_ai_cats' =
                    MergeBatch(all_ai_cats, batch_start,
                        apply_categorize_with_ai(ai_key, ok, answer,
                                                 CatNames(budget_categories)))
              /\ failed' = IF ok THEN failed
                           ELSE Append(failed, [run |-> run, op |-> "ai",
                                                batch |-> batch_start])
    /\ batch_start' = batch_start + APPLY_BATCH_SIZE
    /\ pc' = "ai_apply" /\ pos' = 1
    /\ UNCHANGED <<prog, exit_code, run, creds, ai_key, file_exists, calls, reported>>
    /\ UNCHANGED <<remote_vars, csv, categories, since, category_name_to_id,
                   all_txs, not_app_vars>>
    /\ UNCHANGED <<csv_lookup, csv_by_amount, uncategorized, updated, no_match>>

\* Lines 261-265: one batch, one classification request.  The answer may hold
\* any index, also one past the batch.
AppAiBatch ==
    /\ prog = "apply" /\ pc = "ai"
    /\ LET n == Min(APPLY_BATCH_SIZE, Len(no_match) - batch_start)
       IN  \E ok \in BOOLEAN, answer \in [0..n -> ai_values \cup {AbsentValue}] :
              /\ all_ai_cats' =
                    MergeBatch(all_ai_cats, batch_start,
                        apply_categorize_with_ai(ai_key, ok, answer,
                                                 CatNames(budget_categories)))
              /\ failed' = IF ok THEN failed
                           ELSE Append(failed, [run |-> run, op |-> "ai",
                                                batch |-> batch_start])
    /\ batch_start' = batch_start + APPLY_BATCH_SIZE
    /\ IF batch_start' < Len(no_match)
       THEN pc' = "ai" /\ UNCHANGED pos
       ELSE pc' = "ai_apply" /\ pos' = 1
    /\ UNCHANGED <<prog, exit_code, run, creds, ai_key, file_exists, calls, reported>>
    /\ UNCHANGED <<remote_vars, csv, categories, since, category_name_to_id,
                   all_txs, not_app_vars>>
    /\ UNCHANGED <<csv_lookup, csv_by_amount, uncategorized, updated, no_match>>

\* Lines 270-276, tx_by_key.get(key): the last uncategorized transaction of
\* that date and amount, <<>> for none.
TxByKey(uncat, txs, d, amt) ==
    LET hits == {k \in 1..Len(uncat) :
                    txs[uncat[k]].date = d /\ txs[uncat[k]].amount = amt}
    IN  IF hits = {} THEN <<>>
        ELSE <<uncat[CHOOSE k \in hits : \A j \in hits : j <= k]>>

\* Lines 278-306: one unmatched item of the AI pass.
AppAiApply ==
    /\ prog = "apply" /\ pc = "ai_apply" /\ pos <= Len(no_match)
    /\ LET i  == pos - 1
           tx == TxByKey(uncategorized, ledger, no_match[pos][1], no_match[pos][2])
       IN  IF \/ i \notin DOMAIN all_ai_cats
              \/ all_ai_cats[i] = S_Uncategorized
              \/ all_ai_cats[i] \notin DOMAIN category_name_to_id
              \/ tx = <<>>
           THEN UNCHANGED <<ledger, calls, updated>>
           ELSE \E ok \in BOOLEAN :
                   /\ calls' = Append(calls,
                          [op |-> "update", phase |-> "ai", run |-> run,
                           ok |-> ok, id |-> tx[1],
                           category_id |-> category_name_to_id[all_ai_cats[i]]])
                   /\ IF ok
                      THEN /\ ledger' = UpdateTransaction(ledger, budget_categories,
                                            tx[1], category_name_to_id[all_ai_cats[i]])
                           /\ updated' = updated + 1
                      ELSE UNCHANGED <<ledger, updated>>
    /\ pos' = pos + 1
    /\ UNCHANGED <<prog, pc, exit_code, run, creds, ai_key, file_exists, failed,
                   reported>>
    /\ UNCHANGED <<budget_categories, ai_values, service, listed, shared_vars,
                   category_name_to_id,
                   all_txs, not_app_vars>>
    /\ UNCHANGED <<csv_lookup, csv_by_amount, uncategorized, no_match, all_ai_cats>>

\* Lines 307-312: the totals.
AppReport ==
    /\ prog = "apply"
    /\ \/ pc = "report"
       \/ pc = "ai_apply" /\ pos > Len(no_match)
    /\ reported' = TRUE
    /\ pc' = "done"
    /\ exit_code' = 0
    /\ UNCHANGED <<prog, run, creds, ai_key, file_exists, calls, failed>>
    /\ UNCHANGED <<remote_vars, shared_vars, upd_vars, app_vars, not_app_vars>>

NextApply ==
    \/ AppStart
    \/ AppFetchCategories
    \/ AppFetchPage
    \/ AppSelect
    \/ AppMatch
    \/ AppAiStart
    \/ AppAiBatch
    \/ AppAiApply
    \/ AppReport

----------------------------------------------------------------------------
(* The inputs of the apply script. *)

S_Bottle == <<"S", "t", "a", "i", "n", "l", "e", "s", "s", " ", "s", "t", "e", "e", "l", " ", "w", "a", "t", "e", "r", " ", "b", "o", "t", "t", "l", "e", " ", "1", " ", "l", "i", "t", "r", "e">>
\* Memos of DETAILED_MEMO_LEN characters and of one more.
S_Memo30 == [i \in 1..DETAILED_MEMO_LEN |-> "y"]
S_Memo31 == [i \in 1..(DETAILED_MEMO_LEN + 1) |-> "z"]

\* Rows of the normalizer's output: on a transaction's day, one and two days
\* off, further off, of a category the budget lacks, and rows the loader
\* drops.
ApplyRowDomain ==
    {ImportRow(<<3>>, <<0 - 1>>, S_AmazonCa, S_Mouse, S_Wardrobe, <<>>),
     ImportRow(<<4>>, <<1>>, S_AmazonCa, S_RefundIssued, S_KidsSupplies, <<>>),
     ImportRow(<<1>>, <<0 - 1>>, S_AmazonCa, S_Mouse, S_WardrobePadded, <<>>),
     ImportRow(<<9>>, <<0 - 3>>, S_AmazonCa, S_Mouse, S_TotallyUnknown, <<>>),
     ImportRow(<<9>>, <<0 - 1>>, S_AmazonCa, S_Mouse, S_KidsSupplies, <<>>),
     ImportRow(<<8>>, <<0 - 1>>, S_AmazonCa, S_Mouse, S_Wardrobe, <<>>),
     ImportRow(<<3>>, <<0 - 3>>, S_AmazonCa, S_Mouse, S_Uncategorized, <<>>),
     ImportRow(<<9>>, <<0 - 3>>, S_AmazonCa, S_Mouse, S_Wardrobe, <<>>),
     ImportRow(<<>>, <<0 - 1>>, S_AmazonCa, S_Mouse, S_Wardrobe, <<>>)}

Categorized(date, amount, memo, category_id, category_name) ==
    Tx(date, amount, S_AmazonCa, memo, <<category_id>>, category_name, <<>>,
       FALSE, <<>>)

\* Uncategorized and categorized transactions with short memos.
L_Apply ==
    << Manual(3, 0 - 1000, S_Mouse),
       Categorized(3, 0 - 1000, S_Mouse, "c1", S_KidsSupplies),
       Manual(5, 0 - 3000, S_Memo30) >>
\* Uncategorized transactions with detailed memos, two of one day and amount.
L_Detailed ==
    << Manual(5, 0 - 3000, S_Bottle), Manual(5, 0 - 3000, S_Memo31),
       Manual(6, 0 - 7000, S_Bottle) >>


SplitTx(date, amount, memo) ==
    Tx(date, amount, S_AmazonCa, memo, <<>>, S_Split, <<>>, FALSE,
       << [category_id |-> <<"c1">>, amount |-> amount + 1000],
          [category_id |-> <<"c2">>, amount |-> 0 - 1000] >>)

\* A split and a categorized transaction, each with an uncategorized one of
\* its date and amount.
L_Split ==
    << SplitTx(3, 0 - 1000, S_Mouse), Manual(3, 0 - 1000, S_Mouse),
       Categorized(5, 0 - 3000, S_Mouse, "c1", S_KidsSupplies),
       Manual(5, 0 - 3000, S_Bottle) >>

ApplyLedgers == {L_Apply, L_Detailed, L_Split}

ApplyAiValues == {StrValue(S_KidsSuppliesEmoji), StrValue(S_TotallyUnknown)}

----------------------------------------------------------------------------
(* ynab_cleanup_amazon.py. *)

\* date(2025, 12, 2) and date(2026, 1, 31); the model's calendar ends sooner.
START_DATE == 2
END_DATE   == 5

\* BATCH_SIZE = 25 of the cleanup, scaled.
CLEANUP_BATCH_SIZE == 2

\* A JSON value that cannot be hashed, such as a list.
ListValue == [t |-> "list", s |-> <<>>]

\* to_delete with every member of a group of two or more, the first included.
ToDeleteWholeGroup(ids, txs) ==
    LET Key(k) == <<txs[ids[k]].amount, txs[ids[k]].date>>
        ks     == SelectSeq([k \in 1..Len(ids) |-> k],
                            LAMBDA k : \E j \in 1..Len(ids) : j /= k /\ Key(j) = Key(k))
    IN  [n \in 1..Len(ks) |-> ids[ks[n]]]

\* Lines 188-204: to_delete, all but the first transaction of each
\* (amount, date), the keys in insertion order.
ToDelete(ids, txs) ==
    LET Key(k)  == <<txs[ids[k]].amount, txs[ids[k]].date>>
        IsFirst(k) == \A j \in 1..(k - 1) : Key(j) /= Key(k)
        firsts  == SelectSeq([k \in 1..Len(ids) |-> k], IsFirst)
        Rest(k) == SelectSeq([j \in 1..Len(ids) |-> j],
                             LAMBDA j : j > k /\ Key(j) = Key(k))
        F[n \in 0..Len(firsts)] ==
            IF n = 0 THEN <<>> ELSE F[n - 1] \o Rest(firsts[n])
    IN  [k \in 1..Len(F[Len(firsts)]) |-> ids[F[Len(firsts)][k]]]

\* Lines 221-235: the ids of the transactions to verify.
ItemsToCheck(ids, txs, deleted) ==
    SelectSeq(ids, LAMBDA id : /\ id \notin deleted
                               /\ Strip(txs[id].category_name) /= S_Split)

\* get_ai_categories(items, categories): {} without a key or on any
\* exception, else whatever json.loads returns.  answer: an object, given as
\* id -> value, or <<"other">> for a JSON value that is no object.
get_ai_categories(have_key, ok, answer) ==
    IF ~have_key \/ ~ok THEN <<>> ELSE answer

\* Lines 113-115.
ClnStart ==
    /\ prog = "cleanup" /\ pc = "start"
    /\ IF ~creds THEN Exit(1)
       ELSE pc' = "categories" /\ UNCHANGED exit_code
    /\ UNCHANGED <<prog, run, creds, ai_key, file_exists, calls, failed, reported>>
    /\ UNCHANGED <<remote_vars, shared_vars, upd_vars, cln_vars, not_cln_vars>>

\* Lines 123-144: the categories; the request succeeds or raises ApiException.
ClnFetchCategories ==
    /\ prog = "cleanup" /\ pc = "categories"
    /\ \E ok \in BOOLEAN :
          IF ok
          THEN /\ category_names' = CategoryNames(UsableCategories(budget_categories))
               /\ category_name_to_id' = CategoryNameToId(budget_categories)
               /\ all_txs' = <<>>
               /\ since' = START_DATE
               /\ pc' = "fetch"
               /\ UNCHANGED <<exit_code, failed>>
          ELSE /\ failed' = Append(failed, [run |-> run, op |-> "get_categories"])
               /\ Exit(1)
               /\ UNCHANGED <<category_names, category_name_to_id, all_txs, since>>
    /\ UNCHANGED <<prog, run, creds, ai_key, file_exists, calls, reported>>
    /\ UNCHANGED <<remote_vars, csv, categories, batch_start, pos, not_cln_vars>>
    /\ UNCHANGED <<to_delete, deleted_ids, items_to_check, all_fixes, fixed_count>>

\* Lines 145-183: one request of the pagination loop.
ClnFetchPage ==
    /\ prog = "cleanup" /\ pc = "fetch"
    /\ listed' = 1 - listed
    /\ \E ok \in BOOLEAN :
          IF ok
          THEN LET txs == ServicePage(service, ledger, since)
               IN  /\ all_txs' = all_txs \o
                         SelectSeq(txs, LAMBDA id :
                             /\ ~ledger[id].deleted
                             /\ START_DATE <= ledger[id].date
                             /\ ledger[id].date <= END_DATE)
                   /\ IF Len(txs) < PAGE_SIZE \/ LatestOf(ledger, txs) >= END_DATE
                      THEN pc' = "dedupe" /\ UNCHANGED since
                      ELSE pc' = "fetch" /\ since' = LatestOf(ledger, txs) + 1
                   /\ UNCHANGED <<exit_code, failed>>
          ELSE /\ failed' = Append(failed, [run |-> run, op |-> "get_transactions"])
               /\ Exit(1)
               /\ UNCHANGED <<all_txs, since>>
    /\ UNCHANGED <<prog, run, creds, ai_key, file_exists, calls, reported>>
    /\ UNCHANGED <<budget_categories, ledger, ai_values, service, csv,
                   categories, batch_start, category_name_to_id,
                   pos, cln_vars, not_cln_vars>>

\* Lines 185-206.
ClnDedupe ==
    /\ prog = "cleanup" /\ pc = "dedupe"
    /\ to_delete' = ToDelete(all_txs, ledger)
    /\ deleted_ids' = {}
    /\ pos' = 1
    /\ pc' = "delete"
    /\ UNCHANGED <<prog, exit_code, run, creds, ai_key, file_exists, calls,
                   failed, reported>>
    /\ UNCHANGED <<remote_vars, shared_vars, category_name_to_id, all_txs,
                   not_cln_vars>>
    /\ UNCHANGED <<category_names, items_to_check, all_fixes, fixed_count>>

\* One deletion, a failed one ending the run.
ClnDeleteAbort ==
    /\ prog = "cleanup" /\ pc = "delete" /\ pos <= Len(to_delete)
    /\ \E ok \in BOOLEAN :
          /\ calls' = Append(calls, [op |-> "delete", phase |-> "delete", run |-> run,
                                     ok |-> ok, id |-> to_delete[pos]])
          /\ IF ok
             THEN /\ ledger' = DeleteTransaction(ledger, to_delete[pos])
                  /\ deleted_ids' = deleted_ids \cup {to_delete[pos]}
                  /\ pos' = pos + 1
                  /\ UNCHANGED <<pc, exit_code>>
             ELSE Exit(1) /\ UNCHANGED <<ledger, deleted_ids, pos>>
    /\ UNCHANGED <<prog, run, creds, ai_key, file_exists, failed, reported>>
    /\ UNCHANGED <<budget_categories, ai_values, service, listed, shared_vars,
                   category_name_to_id,
                   all_txs, not_cln_vars>>
    /\ UNCHANGED <<category_names, to_delete, items_to_check, all_fixes, fixed_count>>

\* Lines 207-215: one deletion.  A failed one is printed and the loop goes on.
ClnDelete ==
    /\ prog = "cleanup" /\ pc = "delete" /\ pos <= Len(to_delete)
    /\ \E ok \in BOOLEAN :
          /\ calls' = Append(calls, [op |-> "delete", phase |-> "delete", run |-> run,
                                     ok |-> ok, id |-> to_delete[pos]])
          /\ IF ok
             THEN /\ ledger' = DeleteTransaction(ledger, to_delete[pos])
                  /\ deleted_ids' = deleted_ids \cup {to_delete[pos]}
             ELSE UNCHANGED <<ledger, deleted_ids>>
    /\ pos' = pos + 1
    /\ UNCHANGED <<prog, pc, exit_code, run, creds, ai_key, file_exists, failed,
                   reported>>
    /\ UNCHANGED <<budget_categories, ai_values, service, listed, shared_vars,
                   category_name_to_id,
                   all_txs, not_cln_vars>>
    /\ UNCHANGED <<category_names, to_delete, items_to_check, all_fixes, fixed_count>>

\* Lines 217-241: the items to verify.
ClnItems ==
    /\ prog = "cleanup" /\ pc = "delete" /\ pos > Len(to_delete)
    /\ items_to_check' = ItemsToCheck(all_txs, ledger, deleted_ids)
    /\ all_fixes' = <<>>
    /\ fixed_count' = 0
    /\ batch_start' = 0
    /\ pos' = 1
    /\ pc' = IF items_to_check' /= <<>> THEN "ai" ELSE "fix"
    /\ UNCHANGED <<prog, exit_code, run, creds, ai_key, file_exists, calls,
                   failed, reported>>
    /\ UNCHANGED <<remote_vars, csv, categories, since, category_name_to_id,
                   all_txs, not_cln_vars>>
    /\ UNCHANGED <<category_names, to_delete, deleted_ids>>

\* The JSON objects the AI service may answer with: any of the ids, each
\* with one of the values.
Objects(ids, values) ==
    UNION {[keys -> values] : keys \in SUBSET {ids[k] : k \in 1..Len(ids)}}

\* all_fixes.update(fixes)
UpdateDict(d, fixes) ==
    [k \in DOMAIN d \cup DOMAIN fixes |-> IF k \in DOMAIN fixes THEN fixes[k] ELSE d[k]]

\* Lines 242-247: one batch, one request.  dict.update raises on a JSON value
\* that is no object.
ClnAiBatch ==
    /\ prog = "cleanup" /\ pc = "ai"
    /\ \E ok \in BOOLEAN,
          answer \in {[kind |-> "object", map |-> m] :
                         m \in Objects(items_to_check, ai_values)}
                     \cup {[kind |-> "other", map |-> <<>>]} :
          LET fixes == get_ai_categories(ai_key, ok, answer)
          IN  /\ failed' = IF ai_key /\ ~ok
                           THEN Append(failed, [run |-> run, op |-> "ai",
                                                batch |-> batch_start])
                           ELSE failed
              /\ IF fixes /= <<>> /\ fixes.kind = "other"
                 THEN Crash /\ UNCHANGED <<all_fixes, batch_start>>
                 ELSE /\ all_fixes' = IF fixes = <<>> THEN all_fixes
                                      ELSE UpdateDict(all_fixes, fixes.map)
                      /\ batch_start' = batch_start + CLEANUP_BATCH_SIZE
                      /\ pc' = IF batch_start' < Len(items_to_check)
                               THEN "ai" ELSE "fix"
                      /\ UNCHANGED exit_code
    /\ UNCHANGED <<prog, run, creds, ai_key, file_exists, calls, reported>>
    /\ UNCHANGED <<remote_vars, csv, categories, since, upd_vars, not_cln_vars>>
    /\ UNCHANGED <<category_names, to_delete, deleted_ids, items_to_check,
                   fixed_count>>

\* Lines 251-285: one item of the fixes.  A value that cannot be hashed
\* raises TypeError at the dict lookup; a failed update is printed and the
\* loop goes on.
ClnFix ==
    /\ prog = "cleanup" /\ pc = "fix" /\ pos <= Len(items_to_check)
    /\ LET tx_id == items_to_check[pos]
       IN  IF tx_id \notin DOMAIN all_fixes
           THEN /\ pos' = pos + 1
                /\ UNCHANGED <<pc, exit_code, ledger, calls, fixed_count>>
           ELSE IF all_fixes[tx_id].t = "list"
           THEN Crash /\ UNCHANGED <<pos, ledger, calls, fixed_count>>
           ELSE IF \/ all_fixes[tx_id].t /= "str"
                   \/ all_fixes[tx_id].s \notin DOMAIN category_name_to_id
           THEN /\ pos' = pos + 1
                /\ UNCHANGED <<pc, exit_code, ledger, calls, fixed_count>>
           ELSE \E ok \in BOOLEAN :
                   LET new_category_id == category_name_to_id[all_fixes[tx_id].s]
                   IN  /\ calls' = Append(calls,
                              [op |-> "update", phase |-> "fix", run |-> run,
                               ok |-> ok, id |-> tx_id,
                               category_id |-> new_category_id])
                       /\ IF ok
                          THEN /\ ledger' = UpdateTransaction(ledger,
                                     budget_categories, tx_id, new_category_id)
                               /\ fixed_count' = fixed_count + 1
                          ELSE UNCHANGED <<ledger, fixed_count>>
                       /\ pos' = pos + 1
                       /\ UNCHANGED <<pc, exit_code>>
    /\ UNCHANGED <<prog, run, creds, ai_key, file_exists, failed, reported>>
    /\ UNCHANGED <<budget_categories, ai_values, service, listed, shared_vars,
                   category_name_to_id,
                   all_txs, not_cln_vars>>
    /\ UNCHANGED <<category_names, to_delete, deleted_ids, items_to_check, all_fixes>>

\* Lines 287-292: the totals.
ClnReport ==
    /\ prog = "cleanup" /\ pc = "fix" /\ pos > Len(items_to_check)
    /\ reported' = TRUE
    /\ pc' = "done"
    /\ exit_code' = 0
    /\ UNCHANGED <<prog, run, creds, ai_key, file_exists, calls, failed>>
    /\ UNCHANGED <<remote_vars, shared_vars, upd_vars, cln_vars, not_cln_vars>>

NextCleanup ==
    \/ ClnStart
    \/ ClnFetchCategories
    \/ ClnFetchPage
    \/ ClnDedupe
    \/ ClnDelete
    \/ ClnItems
    \/ ClnAiBatch
    \/ ClnFix
    \/ ClnReport

----------------------------------------------------------------------------
(* The inputs of the cleanup. *)

\* A pair of duplicates, a split, and a transaction past END_DATE.
L_Clean ==
    << Manual(3, 0 - 1000, S_Bottle), Manual(3, 0 - 1000, S_Mouse),
       Categorized(4, 0 - 2000, S_Mouse, "c2", S_Wardrobe),
       SplitTx(4, 0 - 5000, S_Mouse), Manual(END_DATE + 1, 0 - 1000, S_Mouse) >>
\* Three of one day and amount, and one before START_DATE.
L_Triple ==
    << Manual(START_DATE - 1, 0 - 1000, S_Mouse), Manual(2, 0 - 1000, S_Mouse),
       Manual(2, 0 - 1000, S_Bottle), Manual(2, 0 - 1000, S_Memo31) >>

\* Two pairs of duplicates, a page each.
L_Pairs ==
    << Manual(2, 0 - 1000, S_Mouse), Manual(2, 0 - 1000, S_Bottle),
       Manual(3, 0 - 2000, S_Mouse), Manual(3, 0 - 2000, S_Bottle) >>

CleanupLedgers == {L_Empty, L_Clean, L_Triple, L_Pairs}

CleanupAiValues == {StrValue(S_KidsSupplies), StrValue(S_KidsSuppliesEmoji),
                    ListValue}

----------------------------------------------------------------------------
(* Initial states and specifications. *)

\* The variables of the scripts that do not run.
IdleNormalize ==
    /\ no_ai = FALSE
    /\ headers = <<>>
    /\ rows_out = <<>>
    /\ deduped = <<>>
    /\ out_written = FALSE
    /\ out_csv = <<>>

IdleImport ==
    /\ category_id_map = <<>>
    /\ raw_rows = <<>>
    /\ groups = <<>>
    /\ existing_by_amount = {}
    /\ transactions_to_import = <<>>
    /\ skipped_duplicates = 0

IdleUpdate ==
    /\ category_name_to_id = <<>>
    /\ all_txs = <<>>
    /\ pos = 0

IdleApply ==
    /\ csv_lookup = <<>>
    /\ csv_by_amount = <<>>
    /\ uncategorized = <<>>
    /\ updated = 0
    /\ no_match = <<>>
    /\ all_ai_cats = <<>>

IdleCleanup ==
    /\ category_names = <<>>
    /\ to_delete = <<>>
    /\ deleted_ids = {}
    /\ items_to_check = <<>>
    /\ all_fixes = <<>>
    /\ fixed_count = 0

InitCommon ==
    /\ pc = "start"
    /\ exit_code = 0 - 1
    /\ run = 1
    /\ calls = <<>>
    /\ failed = <<>>
    /\ reported = FALSE
    /\ categories = <<>>
    /\ batch_start = 0
    /\ since = 0
    /\ service = "honest"
    /\ listed = 0

\* Any file of up to MaxRows rows under the canonical header, --no-ai.
InitNormRows ==
    /\ prog = "normalize"
    /\ InitCommon /\ IdleImport /\ IdleUpdate /\ IdleApply /\ IdleCleanup
    /\ creds = TRUE /\ ai_key = TRUE /\ file_exists = TRUE
    /\ no_ai = TRUE
    /\ budget_categories = B_Plain
    /\ ledger = <<>>
    /\ ai_values = {}
    /\ headers = H_Canonical
    /\ csv \in SeqsUpTo(RowDomain, MaxRows)
    /\ rows_out = <<>> /\ deduped = <<>>
    /\ out_written = FALSE /\ out_csv = <<>>

\* A file of distinct purchases, any budget, any answers of the AI service.
InitNormAi ==
    /\ prog = "normalize"
    /\ InitCommon /\ IdleImport /\ IdleUpdate /\ IdleApply /\ IdleCleanup
    /\ creds \in BOOLEAN /\ ai_key \in BOOLEAN /\ file_exists = TRUE
    /\ no_ai = FALSE
    /\ budget_categories \in Budgets
    /\ ledger = <<>>
    /\ ai_values = AiValues
    /\ headers = H_Canonical
    /\ \E n \in 0..MaxAiRows :
          csv = [k \in 1..n |-> Row(<<k>>, <<0 - 1>>, S_WirelessMouse, <<>>, <<>>)]
    /\ rows_out = <<>> /\ deduped = <<>>
    /\ out_written = FALSE /\ out_csv = <<>>

\* Any header row, with and without the input file.
InitNormCols ==
    /\ prog = "normalize"
    /\ InitCommon /\ IdleImport /\ IdleUpdate /\ IdleApply /\ IdleCleanup
    /\ creds \in BOOLEAN /\ ai_key = TRUE /\ file_exists \in BOOLEAN
    /\ no_ai \in BOOLEAN
    /\ budget_categories = B_Plain
    /\ ledger = <<>>
    /\ ai_values = {StrValue(S_Wardrobe)}
    /\ headers \in HeaderRows
    /\ csv \in SeqsUpTo({Row(<<1>>, <<1>>, S_RefundIssued, <<"A">>, <<5>>),
                         Row(<<1>>, <<0>>, S_WirelessMouse, <<>>, <<>>)}, 2)
    /\ rows_out = <<>> /\ deduped = <<>>
    /\ out_written = FALSE /\ out_csv = <<>>

InitNormalize == InitNormRows \/ InitNormAi \/ InitNormCols

SpecNormalize == InitNormalize /\ [][NextNormalize]_vars

\* Any file of up to MaxImportRows rows, over each ledger.
InitImportRows ==
    /\ prog = "import"
    /\ InitCommon /\ IdleNormalize /\ IdleImport /\ IdleUpdate /\ IdleApply
    /\ IdleCleanup
    /\ creds = TRUE /\ ai_key = FALSE /\ file_exists = TRUE
    /\ budget_categories = B_Import
    /\ ledger \in ImportLedgers
    /\ ai_values = {}
    /\ csv \in SeqsUpTo(ImportRowDomain, MaxImportRows)

\* With and without the credentials and the file.
InitImportEnv ==
    /\ prog = "import"
    /\ InitCommon /\ IdleNormalize /\ IdleImport /\ IdleUpdate /\ IdleApply
    /\ IdleCleanup
    /\ creds \in BOOLEAN /\ ai_key = FALSE /\ file_exists \in BOOLEAN
    /\ budget_categories = B_Import
    /\ ledger = L_Near
    /\ ai_values = {}
    /\ csv = << ImportRow(<<4>>, <<0 - 2>>, S_Sobeys, <<>>, S_Groceries, <<>>) >>

InitImport == InitImportRows \/ InitImportEnv

SpecImport == InitImport /\ [][NextImport]_vars

\* Any file of up to MaxApplyRows rows, over each ledger, without the AI pass.
InitApplyRows ==
    /\ prog = "apply"
    /\ InitCommon /\ IdleNormalize /\ IdleImport /\ IdleUpdate /\ IdleApply
    /\ IdleCleanup
    /\ creds = TRUE /\ ai_key = FALSE /\ file_exists = TRUE
    /\ budget_categories = B_Plain
    /\ ledger \in ApplyLedgers
    /\ ai_values = {}
    /\ csv \in SeqsUpTo(ApplyRowDomain, MaxApplyRows)

\* The AI pass, with any answers; with and without the credentials, the key
\* and the file.
InitApplyAi ==
    /\ prog = "apply"
    /\ InitCommon /\ IdleNormalize /\ IdleImport /\ IdleUpdate /\ IdleApply
    /\ IdleCleanup
    /\ creds \in BOOLEAN /\ ai_key \in BOOLEAN /\ file_exists \in BOOLEAN
    /\ budget_categories = B_Plain
    /\ ledger \in {L_Detailed, L_Split}
    /\ ai_values = ApplyAiValues
    /\ csv \in SeqsUpTo({ImportRow(<<6>>, <<0 - 7>>, S_AmazonCa, S_Mouse,
                                   S_Wardrobe, <<>>)}, 1)

InitApply == InitApplyRows \/ InitApplyAi

SpecApply == InitApply /\ [][NextApply]_vars

\* Each ledger, with and without the credentials and the key.
InitCleanup ==
    /\ prog = "cleanup"
    /\ InitCommon /\ IdleNormalize /\ IdleImport /\ IdleUpdate /\ IdleApply
    /\ IdleCleanup
    /\ creds \in BOOLEAN /\ ai_key \in BOOLEAN /\ file_exists = TRUE
    /\ budget_categories \in {B_Plain, B_Hidden}
    /\ ledger \in CleanupLedgers
    /\ ai_values = CleanupAiValues
    /\ csv = <<>>

SpecCleanup == InitCleanup /\ [][NextCleanup]_vars

\* Any of the four scripts.
Init == InitNormalize \/ InitImport \/ InitApply \/ InitCleanup

Next == NextNormalize \/ NextImport \/ NextApply \/ NextCleanup

Spec == Init /\ [][Next]_vars

----------------------------------------------------------------------------
(* The claims. *)

\* No remote read, AI request or mutation call of run r failed.
RunClean(r) ==
    /\ \A k \in 1..Len(failed) : failed[k].run /= r
    /\ \A k \in 1..Len(calls) : calls[k].run = r => calls[k].ok

\* C1: the import is idempotent: a second run with the same CSV, against the
\* ledger as a first fully successful run left it, submits no transaction for
\* creation.
C1_SecondRunSubmitsNothing ==
    (prog = "import" /\ run = 2 /\ creds /\ file_exists /\ RunClean(1))
        => \A k \in 1..Len(calls) : calls[k].run /= 2

HasRefundWord(m) ==
    \E w \in {S_return, S_refund, S_reimbursement} : IsSubstr(w, Lower(m))

\* The records recs carry the amounts the sign convention gives their rows.
SignOk(recs) ==
    \A k \in 1..Len(recs) :
        LET row == csv[recs[k].src]
            v   == row.amount[1]
            m   == MemoStr(row, ColumnsOf[headers].memo)
        IN  recs[k].Amount = IF v > 0 /\ HasRefundWord(m) THEN v ELSE 0 - Abs(v)

\* C6: the sign convention of the normalizer: the output amount of a row with
\* parsed amount v and memo m is +v when v > 0 and m contains "return",
\* "refund" or "reimbursement" in any letter case, and -|v| otherwise.
C6_SignConvention ==
    prog = "normalize" => SignOk(rows_out) /\ SignOk(deduped) /\ SignOk(out_csv)

\* A written file with a refund kept positive and a positive amount without a
\* refund word made negative.
C6_Witness ==
    /\ prog = "normalize" /\ out_written
    /\ \E k \in 1..Len(out_csv) : out_csv[k].Amount > 0
    /\ \E k \in 1..Len(out_csv) :
          out_csv[k].Amount < 0 /\ csv[out_csv[k].src].amount[1] > 0

\* C7, as the spec states it: no record with amount 0 is ever written to the
\* output CSV.
C7_NoZeroWritten ==
    (prog = "normalize" /\ out_written)
        => \A k \in 1..Len(out_csv) : out_csv[k].Amount /= 0

\* C7, amended: a row with a date whose parsed amount is zero is kept: the
\* output CSV holds a record of amount 0 for its date.
C7_ZeroRowKept ==
    (prog = "normalize" /\ out_written)
        => \A i \in 1..Len(csv) :
              (csv[i].date /= <<>> /\ csv[i].amount = <<0>>)
                  => \E k \in 1..Len(out_csv) :
                        out_csv[k].Amount = 0 /\ out_csv[k].Date = csv[i].date[1]

\* A written file from an input with a zero-amount row and another row.
C7_Witness ==
    /\ prog = "normalize" /\ out_written
    /\ \E i \in 1..Len(csv) : csv[i].date /= <<>> /\ csv[i].amount = <<0>>
    /\ \E k \in 1..Len(out_csv) : out_csv[k].Amount /= 0

\* The sum of the CSV amounts of a group's rows, in milliunits.
CsvTotal(group_rows) ==
    LET F[i \in 0..Len(group_rows)] ==
            IF i = 0 THEN 0
            ELSE F[i - 1] + Milliunits(group_rows[i][3].Amount[1])
    IN  F[Len(group_rows)]

\* C8: the transactions the import builds keep the sign of the CSV: each is
\* dated as a group of the file and its amount is the sum of that group's CSV
\* amounts, a positive (refund) amount staying positive.
C8_ImportKeepsSign ==
    prog = "import" =>
        \A k \in 1..Len(transactions_to_import) :
            \E g \in 1..Len(groups) :
                /\ transactions_to_import[k].date = groups[g].rows[1][1]
                /\ transactions_to_import[k].amount = CsvTotal(groups[g].rows)

Key9(r) == <<r.Date, r.Amount, Take(r.Memo, 100)>>

CallIds(phase) ==
    LET cs == SelectSeq(calls, LAMBDA c : c.run = run /\ c.phase = phase)
    IN  [k \in 1..Len(cs) |-> cs[k].id]

\* The transactions of ids that the CSV matches to a category of the budget.
MatchedIds(ids) ==
    SelectSeq(ids, LAMBDA id :
        LET c == MatchCategory(ledger[id].date, ledger[id].amount,
                               csv_lookup, csv_by_amount)
        IN  c /= <<>> /\ c[1] \in DOMAIN category_name_to_id)

\* The transactions of ids that the AI's fixes give a category of the budget.
FixableIds(ids) ==
    SelectSeq(ids, LAMBDA id :
        /\ id \in DOMAIN all_fixes
        /\ all_fixes[id].t = "str"
        /\ all_fixes[id].s \in DOMAIN category_name_to_id)

\* The first n elements of a sequence.
Prefix(s, n) == SubSeq(s, 1, Min(n, Len(s)))

ConfigError ==
    \/ prog \in {"import", "apply", "cleanup"} /\ ~creds
    \/ prog \in {"normalize", "import", "apply"} /\ ~file_exists
    \/ /\ prog = "normalize" /\ file_exists /\ csv /= <<>>
       /\ (ColumnsOf[headers].date = <<>> \/ ColumnsOf[headers].amount = <<>>)

\* The run has not gone past its fatal checks: nothing is sent to the ledger,
\* nothing is written, and where it ended it ended with exit code 1.
StoppedAtChecks ==
    /\ calls = <<>> /\ ~out_written
    /\ pc \in (IF prog = "normalize" THEN {"start", "parse", "exit"}
               ELSE {"start", "exit"})
    /\ pc = "exit" => exit_code = 1

C4_FetchFailureAborts ==
    \A k \in 1..Len(failed) :
        (failed[k].run = run /\ failed[k].op \in {"get_categories", "get_transactions"})
            => /\ pc = "exit" /\ exit_code = 1
               /\ ~out_written
               /\ \A j \in 1..Len(calls) : calls[j].run /= run

\* C5: every run that starts and passes the fatal checks reaches its final
\* counts report, whatever subset of the AI requests and mutation calls
\* failed: a run past the checks that has ended has printed its report.
C5_EndsWithReport ==
    (\/ pc \in {"done", "crashed"}
     \/ pc = "exit" /\ \E k \in 1..Len(calls) : calls[k].run = run)
        => reported

\* C10: what the resolver returns is a member of the vocabulary it was given
\* or Uncategorized: every category of the written output CSV is one, every
\* category the apply driver's AI pass holds is one, and every category sent
\* to the ledger with an update is a usable category of the budget.
C10_ResolvedInVocabulary ==
    /\ prog = "normalize" =>
          \A k \in 1..Len(out_csv) :
              out_csv[k].Category \in Range(categories) \cup {DEFAULT_CATEGORY}
    /\ prog = "apply" =>
          \A i \in DOMAIN all_ai_cats :
              all_ai_cats[i] \in Range(CatNames(budget_categories))
                                    \cup {S_Uncategorized}
    /\ \A k \in 1..Len(calls) :
          calls[k].op = "update" =>
              \E c \in Range(UsableCategories(budget_categories)) :
                  c.id = calls[k].category_id

\* A written file holding a category resolved from a padded answer and the
\* default given for an answer that names nothing of the vocabulary.
C10_Witness ==
    /\ prog = "normalize" /\ out_written /\ ~no_ai
    /\ budget_categories = B_Plain /\ categories = <<S_KidsSupplies, S_Wardrobe>>
    /\ \E k \in 1..Len(out_csv) : out_csv[k].Category = S_Wardrobe
    /\ \E k \in 1..Len(out_csv) : out_csv[k].Category = DEFAULT_CATEGORY

\* C11: when the classification request of a batch fails, every record of
\* that batch ends with the category Uncategorized, whatever the vocabulary
\* is (in the apply driver: with no category of the vocabulary), and the run
\* is not ended by the failure.
C11_FailedBatchDefaults ==
    \A k \in 1..Len(failed) :
        (failed[k].op = "ai" /\ failed[k].run = run) =>
            LET b == failed[k].batch
            IN  /\ pc /= "exit"
                /\ prog = "normalize" =>
                      \A j \in (b + 1)..Min(b + BATCH_SIZE, Len(deduped)) :
                          deduped[j].Category = DEFAULT_CATEGORY
                /\ prog = "apply" =>
                      \A j \in b..(Min(b + APPLY_BATCH_SIZE, Len(no_match)) - 1) :
                          j \in DOMAIN all_ai_cats => all_ai_cats[j] = S_Uncategorized

\* The entries of a vocabulary whose normalized form equals that of r.
NormEqual(r, valid) ==
    {c \in Range(valid) : normalize(c) = normalize(r)}

\* The entries of a vocabulary of which r's normalized form is a part, or
\* whose normalized form is a part of r's.
NormSubstr(r, valid) ==
    {c \in Range(valid) : \/ IsSubstr(normalize(r), normalize(c))
                          \/ IsSubstr(normalize(c), normalize(r))}

\* The category is one the rules give for the answer r, in strict priority.
ByPriority(category, r, valid) ==
    IF InList(r, valid) THEN category = r
    ELSE IF NormEqual(r, valid) /= {} THEN category \in NormEqual(r, valid)
    ELSE IF NormSubstr(r, valid) /= {} THEN category \in NormSubstr(r, valid)
    ELSE category = DEFAULT_CATEGORY

\* C12: the resolver applies its rules in strict priority over the whole
\* vocabulary: verbatim, else an exact normalized match, else (only when no
\* entry matches so) a substring match, else Uncategorized.
C12_StrictPriority ==
    prog = "normalize" =>
        \A k \in 1..Len(deduped) :
            deduped[k].ai_cat /= <<>> =>
                ByPriority(deduped[k].Category, Strip(deduped[k].ai_cat[1]), categories)

AbsDiff(a, b) == IF a < b THEN b - a ELSE a - b

\* The day window of the date-tolerance step.
MATCH_DAYS == 2

\* The categorized CSV rows of the amount of a ledger transaction.
RowsOfAmount(tx) ==
    SelectSeq(LookupRows(csv), LAMBDA r : LookupAmount(r.Amount[1]) = tx.amount)

\* Those dated within MATCH_DAYS days of it.
RowsNear(tx) ==
    SelectSeq(RowsOfAmount(tx), LAMBDA r : AbsDiff(r.Date[1], tx.date) <= MATCH_DAYS)

\* The uncategorized transactions the matching pass has gone through.
Processed ==
    IF pc \in {"start", "categories", "fetch", "select", "exit"} THEN <<>>
    ELSE IF pc = "match" THEN Prefix(uncategorized, pos - 1)
    ELSE uncategorized

\* The update calls of the matching pass.
MatchCalls == SelectSeq(calls, LAMBDA c : c.phase = "match")

\* A transaction the matching pass has gone through with a categorized CSV
\* row of its amount within MATCH_DAYS days is not left unmatched.
NearIsMatched ==
    \A k \in 1..Len(Processed) :
        LET tx == ledger[Processed[k]]
        IN  RowsNear(tx) /= <<>> =>
                \A n \in 1..Len(no_match) :
                    ~(no_match[n][1] = tx.date /\ no_match[n][2] = tx.amount)

\* C13 as stated: a categorized CSV entry gives its category to a ledger
\* transaction of its amount dated within 2 days of it, and never to one
\* dated more than 2 days from it.
C13_OnlyWithinTwoDays ==
    prog = "apply" =>
        /\ NearIsMatched
        /\ \A k \in 1..Len(MatchCalls) :
              \E r \in Range(RowsNear(ledger[MatchCalls[k].id])) :
                  /\ Strip(r.Category) \in DOMAIN category_name_to_id
                  /\ category_name_to_id[Strip(r.Category)] = MatchCalls[k].category_id

\* C13, amended: an uncategorized ledger transaction with a categorized CSV
\* entry of its amount dated within 2 days is matched, and the category it is
\* given is that of such an entry; a CSV entry dated more than 2 days from the
\* transaction gives it its category only through the amount-only fallback,
\* that is when no entry of the amount lies within 2 days and it is the only
\* categorized entry of the amount.
C13_WithinTwoDaysOrUnique ==
    prog = "apply" =>
        /\ NearIsMatched
        /\ \A k \in 1..Len(MatchCalls) :
              LET tx == ledger[MatchCalls[k].id]
              IN  \E r \in Range(RowsOfAmount(tx)) :
                      /\ Strip(r.Category) \in DOMAIN category_name_to_id
                      /\ category_name_to_id[Strip(r.Category)] = MatchCalls[k].category_id
                      /\ \/ AbsDiff(r.Date[1], tx.date) <= MATCH_DAYS
                         \/ RowsNear(tx) = <<>> /\ Len(RowsOfAmount(tx)) = 1

\* A transaction given the category of the one CSV entry, dated two days
\* before it, while another entry of the amount lies six days after it.
C13_Witness ==
    /\ prog = "apply" /\ pc = "done"
    /\ Len(csv) = 2
    /\ csv[1].Date = <<1>> /\ csv[1].Category = S_WardrobePadded
    /\ csv[2].Date = <<9>> /\ csv[2].Category = S_KidsSupplies
    /\ \E k \in 1..Len(MatchCalls) :
          /\ ledger[MatchCalls[k].id].date = 3
          /\ MatchCalls[k].category_id = "c2"

\* The CSV holds two categorized rows of the transaction's amount with
\* different categories.
AmbiguousAmount(tx) ==
    \E r1, r2 \in Range(RowsOfAmount(tx)) : Strip(r1.Category) /= Strip(r2.Category)

\* The transaction of id has been left unmatched: no update call of the
\* matching pass names it and, while that pass runs, no_match lists it.
LeftUnmatched(id) ==
    /\ \A k \in 1..Len(MatchCalls) : MatchCalls[k].id /= id
    /\ pc = "match" =>
          \E n \in 1..Len(no_match) :
              no_match[n][1] = ledger[id].date /\ no_match[n][2] = ledger[id].amount

\* C14 as stated: when two or more CSV rows have the same amount with
\* different categories, a ledger transaction of that amount for which no CSV
\* row has exactly its date stays unmatched.
C14_NoExactDateUnmatched ==
    prog = "apply" =>
        \A k \in 1..Len(Processed) :
            LET tx == ledger[Processed[k]]
            IN  (/\ AmbiguousAmount(tx)
                 /\ \A r \in Range(RowsOfAmount(tx)) : r.Date[1] /= tx.date)
                    => LeftUnmatched(Processed[k])

\* C14, amended: when two or more categorized CSV rows have the same amount,
\* a ledger transaction of that amount for which no such row is dated within
\* 2 days of it stays unmatched and receives no category from CSV matching.
C14_NoNearDateUnmatched ==
    prog = "apply" =>
        \A k \in 1..Len(Processed) :
            LET tx == ledger[Processed[k]]
            IN  (Len(RowsOfAmount(tx)) >= 2 /\ RowsNear(tx) = <<>>)
                    => LeftUnmatched(Processed[k])

\* The matching pass over, a transaction with two rows of its amount, of
\* different categories, both more than 2 days from it.
C14_Witness ==
    /\ prog = "apply" /\ pc = "done"
    /\ \E k \in 1..Len(Processed) :
          LET tx == ledger[Processed[k]]
          IN  AmbiguousAmount(tx) /\ RowsNear(tx) = <<>>

\* The rows of raw_rows that carry the order id oid.
RowsOfOrder(oid) == SelectSeq(raw_rows, LAMBDA r : r[4] = oid)

\* The amount of a row as the CSV states it, in milliunits.
CsvAmount(r) == Milliunits(r[3].Amount[1])

\* The sum of Amt over rows.
SumOver(rows, Amt(_)) ==
    LET F[i \in 0..Len(rows)] == IF i = 0 THEN 0 ELSE F[i - 1] + Amt(rows[i])
    IN  F[Len(rows)]

\* The category ids the rows resolve to.
CategoryIds(rows) ==
    {category_for_row(rows[i][3], category_id_map)[1] : i \in 1..Len(rows)}

\* The transaction tx is the one the rows rs of an order are to give, their
\* amounts read by Amt: the total, and one category or one sub-amount per
\* category.
BuiltFrom(tx, rs, Amt(_)) ==
    /\ tx.date = rs[1][1]
    /\ tx.amount = SumOver(rs, Amt)
    /\ IF Cardinality(CategoryIds(rs)) = 1
       THEN /\ tx.subtransactions = <<>>
            /\ tx.category_id \in CategoryIds(rs)
       ELSE /\ Len(tx.subtransactions) = Cardinality(CategoryIds(rs))
            /\ \A c \in CategoryIds(rs) :
                  \E n \in 1..Len(tx.subtransactions) :
                      /\ tx.subtransactions[n].category_id = c
                      /\ tx.subtransactions[n].amount =
                            SumOver(SelectSeq(rs, LAMBDA r :
                                category_for_row(r[3], category_id_map)[1] = c), Amt)
            /\ SumOver(tx.subtransactions, LAMBDA st : st.amount) = tx.amount

\* The order ids of the file.
OrderIds == {raw_rows[i][4] : i \in 1..Len(raw_rows)} \ {<<>>}

\* The groups the import builds a transaction for, in the order of the file:
\* not those of total 0 nor those skipped as duplicates.
BuiltGroups == SelectSeq(groups, LAMBDA g : IsBuilt(g, existing_by_amount))

\* C15: for every group of CSV rows sharing an order id the import submits at
\* most one transaction, whose amount is the sum of the rows' amounts, with a
\* single category when all rows resolve to one and else as a split with one
\* sub-amount per category, the sum of that category's rows, the sub-amounts
\* adding up to the amount.
C15_SplitConstruction ==
    (prog = "import" /\ pc \in {"create", "done", "exit"}) =>
        /\ Len(transactions_to_import) = Len(BuiltGroups)
        /\ \A k \in 1..Len(BuiltGroups) :
              BuiltGroups[k].key \in OrderIds =>
                  BuiltFrom(transactions_to_import[k],
                            RowsOfOrder(BuiltGroups[k].key), CsvAmount)

\* The ledger holds a transaction that is not deleted, of the amount of tx
\* and dated within DAYS_TOLERANCE days of it.
LedgerHoldsNear(tx) ==
    \E id \in DOMAIN ledger :
        /\ ~ledger[id].deleted
        /\ ledger[id].amount = tx.amount
        /\ AbsDiff(ledger[id].date, tx.date) <= DAYS_TOLERANCE

\* C16: the import never submits a transaction for creation when the ledger
\* already holds a transaction that is not deleted, of the same amount and
\* dated within DAYS_TOLERANCE days of it: none of the transactions about to
\* be sent has such a transaction in the ledger.
C16_NoNearDuplicateSubmitted ==
    (prog = "import" /\ pc = "create") =>
        \A k \in 1..Len(transactions_to_import) :
            ~LedgerHoldsNear(transactions_to_import[k])

\* Candidate i equals header h case-insensitively (the header trimmed, as the
\* keys of keys_lower are).
CandEquals(cands, i, h) == Lower(Strip(h)) = Lower(cands[i])

\* Header h contains candidate i once spaces and periods are removed from both.
CandWithin(cands, i, h) ==
    IsSubstr(NoSpaceDot(cands[i]), NoSpaceDot(Lower(Strip(h))))

ColumnByPriority(res, hs, cands) ==
    LET exact == {i \in 1..Len(cands) : \E h \in Range(hs) : CandEquals(cands, i, h)}
        sub   == {i \in 1..Len(cands) : \E h \in Range(hs) : CandWithin(cands, i, h)}
    IN  IF exact /= {}
        THEN /\ res /= <<>>
             /\ res[1] \in Range(hs)
             /\ \E i \in exact : /\ \A j \in exact : i <= j
                                 /\ CandEquals(cands, i, res[1])
        ELSE IF sub /= {}
        THEN /\ res /= <<>>
             /\ res[1] \in Range(hs)
             /\ \E i \in sub : CandWithin(cands, i, res[1])
        ELSE res = <<>>

\* The header rows each of whose columns is resolved by the priority above.
ResolvedByPriority ==
    {hs \in HeaderRows :
        LET cols == ColumnsOf[hs]
        IN  /\ ColumnByPriority(cols.date, hs, DATE_COLUMNS)
            /\ ColumnByPriority(cols.amount, hs, AMOUNT_COLUMNS)
            /\ ColumnByPriority(cols.memo, hs, MEMO_COLUMNS)
            /\ ColumnByPriority(cols.order_id, hs, ORDER_ID_COLUMNS)
            /\ ColumnByPriority(cols.order_total, hs, ORDER_TOTAL_COLUMNS)}

\* C17: a column is resolved to the header equal, case-insensitively, to the
\* earliest candidate that has such a header; to a header containing a
\* candidate (spaces and periods removed from both) only when no candidate
\* equals any header; and to nothing when neither rule matches.
C17_ColumnResolution ==
    (prog = "normalize" /\ pc /= "start") => headers \in ResolvedByPriority

\* The rows of a file whose amount header equals a late candidate while another
\* header contains an earlier one, and whose date header only contains a
\* candidate, have been parsed.
C17_Witness ==
    /\ prog = "normalize" /\ pc = "dedupe"
    /\ headers = H_Mixed
    /\ ColumnsOf[headers].amount = <<H_Mixed[3]>>
    /\ ColumnsOf[headers].date = <<H_Mixed[1]>>
    /\ rows_out /= <<>>

\* The category the exact (date + delta, amount) key gives, <<>> for none.
AtOffset(tx, delta) ==
    IF <<tx.date + delta, tx.amount>> \in DOMAIN csv_lookup
    THEN <<csv_lookup[<<tx.date + delta, tx.amount>>]>>
    ELSE <<>>

\* The amount-only index, consulted only when it holds one entry.
AmountOnly(tx) ==
    IF tx.amount \in DOMAIN csv_by_amount /\ Len(csv_by_amount[tx.amount]) = 1
    THEN <<csv_by_amount[tx.amount][1][2]>>
    ELSE <<>>

\* The steps in their order, the first hit taken.
StepsInOrder(tx) ==
    IF AtOffset(tx, 0) /= <<>> THEN AtOffset(tx, 0)
    ELSE IF AtOffset(tx, 0 - 2) /= <<>> THEN AtOffset(tx, 0 - 2)
    ELSE IF AtOffset(tx, 0 - 1) /= <<>> THEN AtOffset(tx, 0 - 1)
    ELSE IF AtOffset(tx, 1) /= <<>> THEN AtOffset(tx, 1)
    ELSE IF AtOffset(tx, 2) /= <<>> THEN AtOffset(tx, 2)
    ELSE AmountOnly(tx)

\* The matching pass has asked for category name on transaction id, once.
MatchedTo(id, name) ==
    /\ name \in DOMAIN category_name_to_id
    /\ \E k \in 1..Len(MatchCalls) :
          /\ MatchCalls[k].id = id
          /\ MatchCalls[k].category_id = category_name_to_id[name]
          /\ \A j \in 1..Len(MatchCalls) : MatchCalls[j].id = id => j = k

\* The matching pass lists the transaction of id among the unmatched.
ListedUnmatched(id) ==
    \E n \in 1..Len(no_match) :
        no_match[n][1] = ledger[id].date /\ no_match[n][2] = ledger[id].amount

\* C18: each uncategorized transaction gets the category of the first step
\* that hits: the exact (date, amount) key; then the keys 2 days before, 1 day
\* before, 1 day after and 2 days after; then the amount-only index when it
\* holds exactly one entry; and it is recorded as unmatched when no step hits.
C18_MatchOrder ==
    prog = "apply" =>
        \A k \in 1..Len(Processed) :
            LET id  == Processed[k]
                cat == StepsInOrder(ledger[id])
            IN  IF cat = <<>> THEN LeftUnmatched(id)
                ELSE /\ pc = "match" => ~ListedUnmatched(id)
                     /\ \/ MatchedTo(id, cat[1])
                        \/ /\ cat[1] \notin DOMAIN category_name_to_id
                           /\ \A j \in 1..Len(MatchCalls) : MatchCalls[j].id /= id

\* A transaction with a CSV row on its day and a row of another category one
\* day later has been given the category of the row on its day.
C18_Witness ==
    /\ prog = "apply" /\ pc = "done"
    /\ \E k \in 1..Len(Processed) :
          LET id == Processed[k]
              tx == ledger[id]
          IN  /\ AtOffset(tx, 0) /= <<>> /\ AtOffset(tx, 1) /= <<>>
              /\ AtOffset(tx, 0) /= AtOffset(tx, 1)
              /\ AtOffset(tx, 1)[1] \in DOMAIN category_name_to_id
              /\ MatchedTo(id, AtOffset(tx, 0)[1])

\* All the rows of the CSV with the transaction's amount, kept by the loader
\* or not.
AllRowsOfAmount(tx) ==
    SelectSeq(csv, LAMBDA r : r.Amount /= <<>> /\ LookupAmount(r.Amount[1]) = tx.amount)

\* The update calls of the matching pass whose category came from the
\* amount-only fallback: no kept row of the amount lies within MATCH_DAYS days.
FallbackCalls == SelectSeq(MatchCalls, LAMBDA c : RowsNear(ledger[c.id]) = <<>>)

\* C19 as stated: the amount-only fallback assigns a category only when exactly
\* one row of the whole CSV has the amount, whether or not the rows carry a
\* usable category.
C19_UniqueInWholeCsv ==
    prog = "apply" =>
        \A k \in 1..Len(FallbackCalls) :
            Len(AllRowsOfAmount(ledger[FallbackCalls[k].id])) = 1

\* C19, amended: the amount-only fallback assigns a category only when exactly
\* one of the rows the loader keeps (date and amount readable, category neither
\* empty nor "Uncategorized") has the amount, and it assigns that row's
\* category; with two or more kept rows of the amount and none within 2 days
\* the transaction is left unmatched.
C19_UniqueAmongKeptRows ==
    prog = "apply" =>
        /\ \A k \in 1..Len(FallbackCalls) :
              LET rs == RowsOfAmount(ledger[FallbackCalls[k].id])
              IN  /\ Len(rs) = 1
                  /\ Strip(rs[1].Category) \in DOMAIN category_name_to_id
                  /\ FallbackCalls[k].category_id =
                         category_name_to_id[Strip(rs[1].Category)]
        /\ \A k \in 1..Len(Processed) :
              LET tx == ledger[Processed[k]]
              IN  (RowsNear(tx) = <<>> /\ Len(RowsOfAmount(tx)) >= 2)
                      => LeftUnmatched(Processed[k])

\* The fallback has given a transaction the category of the one kept row of
\* its amount while the CSV holds a second row of the amount, marked
\* "Uncategorized".
C19_Witness ==
    /\ prog = "apply" /\ pc = "done"
    /\ \E k \in 1..Len(FallbackCalls) :
          LET tx == ledger[FallbackCalls[k].id]
          IN  /\ Len(RowsOfAmount(tx)) = 1
              /\ Len(AllRowsOfAmount(tx)) = 2
              /\ \E r \in Range(AllRowsOfAmount(tx)) :
                    Lower(Strip(r.Category)) = Lower(S_Uncategorized)
              /\ FallbackCalls[k].ok

\* The update calls issued so far.
UpdateCalls == SelectSeq(calls, LAMBDA c : c.op = "update")

ApplySuccessors ==
    [start      |-> {"categories", "exit"},
     categories |-> {"fetch", "exit"},
     fetch      |-> {"select", "exit"},
     select     |-> {"match"},
     match      |-> {"ai", "report"},
     ai         |-> {"ai_apply"},
     ai_apply   |-> {"done"},
     report     |-> {"done"},
     done       |-> {},
     exit       |-> {}]

ApplyStepInOrder == prog = "apply" /\ pc' /= pc => pc' \in ApplySuccessors[pc]

ApplyPhaseInvariant ==
    prog = "apply" =>
        \* the CSV is loaded before any request is made
        /\ pc \notin {"start", "exit"} =>
              csv_lookup = CsvLookup(csv) /\ csv_by_amount = CsvByAmount(csv)
        \* no update before the categories and the transactions are fetched
        /\ pc \in {"start", "categories", "fetch", "select", "exit"} => UpdateCalls = <<>>
        \* the updates of the matching pass are issued during that pass
        /\ pc \in {"match", "ai"} =>
              \A k \in 1..Len(UpdateCalls) : UpdateCalls[k].phase = "match"
        \* the updates of the AI pass come after those of the matching pass and
        \* after the last batch of the classification
        /\ \A k \in 1..Len(UpdateCalls) :
              UpdateCalls[k].phase = "ai" =>
                  /\ pc \in {"ai_apply", "done"}
                  /\ batch_start >= Len(no_match)
                  /\ \A j \in 1..Len(UpdateCalls) :
                        UpdateCalls[j].phase = "match" => j < k
        /\ pc = "ai_apply" => batch_start >= Len(no_match)
        \* the report ends the run
        /\ reported <=> pc = "done"

----------------------------------------------------------------------------
(* The pagination loops of the three scripts that list transactions, up to
   the end of the listing, over a ledger service that may repeat itself.  The
   service repeats itself for the import script only, whose state returns to
   what it was: the other two scripts append every page to all_txs and would
   grow it without bound. *)

PagingLedgers == {L_Near, L_Pages, L_Clean, L_Triple, L_Pairs}

InitPaging ==
    /\ prog \in {"import", "apply", "cleanup"}
    /\ pc = "start" /\ exit_code = 0 - 1 /\ run = 1
    /\ calls = <<>> /\ failed = <<>> /\ reported = FALSE
    /\ categories = <<>> /\ batch_start = 0 /\ since = 0
    /\ IdleNormalize /\ IdleImport /\ IdleUpdate /\ IdleApply /\ IdleCleanup
    /\ creds = TRUE /\ ai_key = FALSE /\ file_exists = TRUE
    /\ budget_categories = B_Plain
    /\ ledger \in PagingLedgers
    /\ ai_values = {}
    /\ service \in {"honest", "stale"}
    /\ listed = 0
    /\ service = "stale" => prog = "import"
    /\ csv \in {<< ImportRow(<<2>>, <<0 - 1>>, S_AmazonCa, S_Mouse, <<>>, <<>>) >>,
                << ImportRow(<<4>>, <<0 - 2>>, S_Sobeys, <<>>, S_Groceries, <<"A">>) >>}

NextPaging ==
    \/ ImpStart \/ ImpFetchCategories \/ ImpReadCsv \/ ImpFetchPage
    \/ AppStart \/ AppFetchCategories \/ AppFetchPage
    \/ ClnStart \/ ClnFetchCategories \/ ClnFetchPage

\* The scripts run sequentially: a script that can take a step takes it.
SpecPaging == InitPaging /\ [][NextPaging]_vars /\ WF_vars(NextPaging)

\* The script is in its pagination loop.
Listing == prog \in {"import", "apply", "cleanup"} /\ pc = "fetch"

\* C21 as stated: the pagination loop always terminates, also when the service
\* answers the new cursor with the same full page again.
C21_AlwaysTerminates == Listing ~> ~Listing

\* The loop asks again only after a full page, with the latest date of that
\* page plus one day as the cursor, later than the cursor before when the page
\* was the cursor's; the cleanup does not ask again once the latest date has
\* reached END_DATE.
ListingStep ==
    (Listing /\ Listing') =>
        LET page == ServicePage(service, ledger, since)
        IN  /\ Len(page) = PAGE_SIZE
            /\ since' = LatestOf(ledger, page) + 1
            /\ service = "honest" => since' > since
            /\ prog = "cleanup" => LatestOf(ledger, page) < END_DATE

\* C21, amended: each new request uses as cursor the latest date of the
\* previous page plus one day, the loop is left after a page of fewer than
\* PAGE_SIZE entries or (cleanup) when the latest date has reached END_DATE, and
\* the loop terminates whenever the service answers a request with
\* transactions dated on or after the cursor only.
C21_TerminatesWhenCursorHonoured ==
    /\ [][ListingStep]_vars
    /\ (Listing /\ service = "honest") ~> ~Listing

\* The loop has asked for a second page of an honest service and is done.
C21_Witness ==
    /\ prog \in {"import", "apply", "cleanup"}
    /\ pc \in {"build", "select", "dedupe"}
    /\ service = "honest"
    /\ failed = <<>>
    /\ Len(IdsSince(ledger, 0)) > PAGE_SIZE
    /\ since > LatestOf(ledger, ListPage(ledger, 0))

\* The delete calls issued so far.
DeleteCalls == SelectSeq(calls, LAMBDA c : c.op = "delete")

\* The fetched transaction at position j has the amount and the date of the
\* one at position k.
SameKey(j, k) ==
    /\ ledger[all_txs[j]].amount = ledger[all_txs[k]].amount
    /\ ledger[all_txs[j]].date = ledger[all_txs[k]].date

\* The fetched transaction at position k is the first of its (amount, date).
FirstOfGroup(k) == \A j \in 1..(k - 1) : ~SameKey(j, k)

\* The deduplication phase of the cleanup is over.
DedupeOver == prog = "cleanup" /\ pc \in {"ai", "fix", "done"}

\* C22: in the cleanup, every fetched in-range transaction but the first of its
\* (amount, date) gets one delete request and the first gets none; when all
\* the deletes succeed, one transaction of each (amount, date) remains among
\* the fetched ones; and no deleted transaction is sent to the verification or
\* updated.
C22_KeepFirstDeleteRest ==
    prog = "cleanup" =>
        /\ \A c \in 1..Len(DeleteCalls) :
              \E k \in 1..Len(all_txs) :
                  all_txs[k] = DeleteCalls[c].id /\ ~FirstOfGroup(k)
        /\ DedupeOver =>
              \A k \in 1..Len(all_txs) :
                  ~FirstOfGroup(k) =>
                      Cardinality({c \in 1..Len(DeleteCalls) :
                                      DeleteCalls[c].id = all_txs[k]}) = 1
        /\ (DedupeOver /\ \A c \in 1..Len(DeleteCalls) : DeleteCalls[c].ok) =>
              \A k \in 1..Len(all_txs) :
                  Cardinality({j \in 1..Len(all_txs) :
                                  SameKey(j, k) /\ ~ledger[all_txs[j]].deleted}) = 1
        /\ \A id \in deleted_ids :
              /\ ledger[id].deleted
              /\ \A n \in 1..Len(items_to_check) : items_to_check[n] /= id
              /\ \A c \in 1..Len(calls) :
                    calls[c].op = "update" => calls[c].id /= id

\* Two groups of two have lost their second member each, and a first member
\* has been given a category by the verification.
C22_Witness ==
    /\ prog = "cleanup" /\ pc = "done"
    /\ Cardinality(deleted_ids) = 2
    /\ Len(DeleteCalls) = 2
    /\ \E c \in 1..Len(calls) :
          /\ calls[c].op = "update" /\ calls[c].ok
          /\ \E k \in 1..Len(all_txs) :
                /\ all_txs[k] = calls[c].id
                /\ FirstOfGroup(k)
                /\ \E j \in 1..Len(all_txs) : j /= k /\ SameKey(j, k)

\* A memo of at most DETAILED_MEMO_LEN characters.
ShortMemo(m) == Len(m) <= DETAILED_MEMO_LEN

\* C23: in no script is a record whose memo has at most 30 characters part of
\* a classification request, and the AI pass leaves its category as it was:
\* the records the normalizer has classified with short memos are
\* 'Uncategorized', the lists the apply and cleanup scripts have sent hold no
\* short memo, and no update of an AI pass names a transaction with a short
\* memo.
C23_ShortMemosLeftAlone ==
    /\ (prog = "normalize" /\ ~no_ai /\ ai_key /\ pc \in {"write", "done"}) =>
          \A k \in 1..Len(deduped) :
              ShortMemo(deduped[k].Memo) => deduped[k].Category = DEFAULT_CATEGORY
    /\ (prog = "apply" /\ ai_key /\ pc = "ai_apply") =>
          \A n \in 1..Len(no_match) : ~ShortMemo(no_match[n][3])
    /\ (prog = "cleanup" /\ ai_key /\ pc = "fix") =>
          \A n \in 1..Len(items_to_check) : ~ShortMemo(ledger[items_to_check[n]].memo)
    /\ prog \in {"apply", "cleanup"} =>
          \A c \in 1..Len(calls) :
              (calls[c].op = "update" /\ calls[c].phase \in {"ai", "fix"}) =>
                  ~ShortMemo(ledger[calls[c].id].memo)

\* How often id occurs in the sequence ids.
Occurrences(ids, id) == Cardinality({k \in 1..Len(ids) : ids[k] = id})

\* No request of the current run has failed.
NoFailureInRun == \A k \in 1..Len(failed) : failed[k].run /= run

\* C24: once the listing is over without a failed request, every non-deleted
\* transaction of the ledger dated on or after the start date has been fetched,
\* and fetched once (in the cleanup: every one dated from START_DATE to
\* END_DATE).
C24_EveryTransactionOnce ==
    (service = "honest" /\ NoFailureInRun) =>
        /\ (prog = "apply" /\ pc = "select") =>
              \A id \in 1..Len(ledger) :
                  (~ledger[id].deleted /\ ledger[id].date >= APPLY_SINCE)
                      => Occurrences(all_txs, id) = 1
        /\ (prog = "cleanup" /\ pc = "dedupe") =>
              \A id \in 1..Len(ledger) :
                  (/\ ~ledger[id].deleted
                   /\ START_DATE <= ledger[id].date
                   /\ ledger[id].date <= END_DATE)
                      => Occurrences(all_txs, id) = 1
        /\ (prog = "import" /\ pc = "build" /\ raw_rows /= <<>>) =>
              \A id \in 1..Len(ledger) :
                  (/\ ~ledger[id].deleted
                   /\ ledger[id].date >= MinDate(raw_rows) - DAYS_TOLERANCE)
                      => <<ledger[id].amount, ledger[id].date>> \in existing_by_amount

\* The update calls of the AI pass of the apply script.
AiCalls == SelectSeq(calls, LAMBDA c : c.op = "update" /\ c.phase = "ai")

\* Entry n of the list sent to the AI is the transaction of id.
EntryOf(n, id) ==
    no_match[n] = <<ledger[id].date, ledger[id].amount,
                    Take(ledger[id].memo, APPLY_MEMO_LEN)>>

\* C25: in the AI pass of the apply script, each update gives a transaction
\* the category returned for its own memo, and no transaction is updated
\* twice in a run, also when uncategorized transactions share date and amount.
C25_AiCategoryToItsTransaction ==
    prog = "apply" =>
        /\ \A c \in 1..Len(AiCalls) :
              \E n \in 1..Len(no_match) :
                  /\ EntryOf(n, AiCalls[c].id)
                  /\ (n - 1) \in DOMAIN all_ai_cats
                  /\ all_ai_cats[n - 1] \in DOMAIN category_name_to_id
                  /\ category_name_to_id[all_ai_cats[n - 1]] = AiCalls[c].category_id
        /\ \A c, d \in 1..Len(UpdateCalls) :
              UpdateCalls[c].id = UpdateCalls[d].id => c = d

\* C26: the transactions built for one import batch, one per group, carry
\* import identifiers that differ from one another.
C26_DistinctImportIds ==
    prog = "import" =>
        \A j, k \in 1..Len(transactions_to_import) :
            j /= k => transactions_to_import[j].import_id
                          /= transactions_to_import[k].import_id

\* The failed classification requests of the apply script's AI pass.
FailedBatches == SelectSeq(failed, LAMBDA f : f.op = "ai")

\* C27: in the apply script the answer to one classification batch gives
\* categories to records of that batch only: while the batches run, no record
\* of a batch not yet sent has a category, and the records of a batch whose
\* request failed have none.
C27_BatchStaysInItsRange ==
    (prog = "apply" /\ pc \in {"ai", "ai_apply", "done"}) =>
        /\ pc = "ai" => \A i \in DOMAIN all_ai_cats : i < batch_start
        /\ \A f \in 1..Len(FailedBatches) :
              \A i \in DOMAIN all_ai_cats :
                  ~(/\ FailedBatches[f].batch <= i
                    /\ i < FailedBatches[f].batch + APPLY_BATCH_SIZE)

\* The ledger as the run found it: the updates change neither the date, the
\* amount nor the memo of a transaction.
LedgerAtFetch ==
    CHOOSE L \in ApplyLedgers :
        /\ Len(L) = Len(ledger)
        /\ \A id \in 1..Len(L) : /\ L[id].date = ledger[id].date
                                 /\ L[id].amount = ledger[id].amount
                                 /\ L[id].memo = ledger[id].memo

\* The transaction had no category when it was fetched.
NoCategoryAtFetch(id) ==
    Strip(LedgerAtFetch[id].category_name) \in {<<>>, S_Uncategorized}

\* C28: the apply script sends update requests, in the matching pass and in
\* the AI pass, only for transactions whose category was empty or
\* 'Uncategorized' when they were fetched; a transaction that had a category,
\* a split one included, stays as it was.
C28_OnlyUncategorizedUpdated ==
    prog = "apply" =>
        /\ \A c \in 1..Len(UpdateCalls) : NoCategoryAtFetch(UpdateCalls[c].id)
        /\ \A id \in 1..Len(ledger) :
              ~NoCategoryAtFetch(id) => ledger[id] = LedgerAtFetch[id]

\* A run has updated an uncategorized transaction while the ledger holds a
\* split transaction of the same date and amount, left as it was.
C28_Witness ==
    /\ prog = "apply" /\ pc = "done"
    /\ \E c \in 1..Len(UpdateCalls) :
          /\ UpdateCalls[c].ok
          /\ \E id \in 1..Len(ledger) :
                /\ ledger[id].subtransactions /= <<>>
                /\ ledger[id].date = ledger[UpdateCalls[c].id].date
                /\ ledger[id].amount = ledger[UpdateCalls[c].id].amount
                /\ ledger[id].category_name = S_Split

====
